---- MODULE Spec2Model ----
(***************************************************************************)
(* Model of the scale-cnn layer pipelines (tdf1, tdf2, tdf4, tdf6, tdf8,   *)
(* tdf9, tdf11, tdf12): the get_next_ijk index generators, the             *)
(* accumulation stages, and the pooling aggregator.                        *)
(***************************************************************************)
EXTENDS Integers, Sequences, FiniteSets, TLC

(***************************************************************************)
(* Layer dimensions.  The sources take them from the per-layer headers     *)
(* (tdfN_common_defines.h, tdfN_impl_defines.h); the model uses small      *)
(* values of the same names.                                               *)
(***************************************************************************)
OUTPUT_HEIGHT == 2

OUTPUT_WIDTH == 3

OUTPUT_CHANS == 6

OCHAN_SCALE_FACTOR == 2

L1_OUTPUT_CHANS == 8

POOLING_FACTOR == 2

\* Number of times a layer function is run (the statics survive each run).
MaxPasses == 2

VARIABLES
    variant,          \* which layer's generator is exercised: "plain", "pooled", "fused"
    tdf6_i, tdf6_j, tdf6_k,                       \* statics of tdf6_get_next_ijk
    tdf2_i, tdf2_j, tdf2_k,                       \* statics of tdf2_get_next_ijk
    tdf2_i_out, tdf2_j_out, tdf2_i_p, tdf2_j_p,
    tdf4_i, tdf4_j, tdf4_k,                       \* statics of tdf4_get_next_ijk
    indices,          \* indices[3] out-parameter of the plain and fused generators
    write,            \* *write out-parameter of the fused generator
    input_indices,    \* input_indices[3] out-parameter of the pooled generator
    output_indices,   \* output_indices[2] out-parameter of the pooled generator
    resetMaximum,     \* *resetMaximum out-parameter of the pooled generator
    storeOutput,      \* *storeOutput out-parameter of the pooled generator
    calls,            \* number of generator calls made so far
    trace,            \* history: one record per call (state at entry, values returned)
    stage,            \* how far the reduction of one lane has got
    products,         \* products[n]: the product vector of the lane
    accum1_out,       \* accum1_out_n: output of accumulation stage 1
    accum2_out,       \* accum2_out_n: output of accumulation stage 2
    accum3_out,       \* accum3_out_n: output of accumulation stage 3
    sum,              \* sums[n]: the scalar the last stage returns
    psum,             \* the local array psum of an interleaved stage
    outputs,          \* outputs[OCHAN_SCALE_FACTOR]: the adjusted values of the iteration
    max_vals,         \* static max_vals[OCHAN_SCALE_FACTOR] of tdf2_poolOutputs
    written,          \* arguments of the writeOutputs call of the iteration, <<>> if none
    seen,             \* history: per channel, the values received since the last reset
    nwin,             \* history: number of calls since and including the last reset
    f,                \* loop counter of TOP_LOOP: iterations done in the current run
    nwrites,          \* history: per output element, the writes to it in the current run
    l2_partial_sums,  \* l2_partial_sums[OUTPUT_CHANS] handed to tdf4_l2_writeOutputs
    running_sums,     \* static running_sums[OUTPUT_CHANS] of tdf4_l2_writeOutputs
    l2_written,       \* the elements of out_data assigned by the call, <<>> if none
    received,         \* history: the partial sums received for the current position
    ifmap_vec,        \* ifmap_vec: the input window read by readInputs
    weight_vecs,      \* weight_vecs[OCHAN_SCALE_FACTOR]: the filters read by readFilters
    sums,             \* sums[OCHAN_SCALE_FACTOR]: the reduced sum of every lane
    config,           \* the constants the layer was built with
    pc,               \* the statement of the body of TOP_LOOP that runs next
    log,              \* history: the calls made so far in the current iteration
    valid,            \* history: the locals assigned so far in the current iteration
    stale,            \* history: some call read a local not yet assigned in its iteration
    intermediate_fmaps,  \* intermediate_fmaps[OCHAN_SCALE_FACTOR]: the adjusted L1 sums
    l2_products,      \* l2_products[OCHAN_SCALE_FACTOR][OUTPUT_CHANS] of tdf4_l2_multiply
    l2_sums,          \* per group, the local sums[16] of tdf4_l2_accum as the group found it
    max_vals_b,       \* second run of the pooled driver: its static max_vals
    written_b,        \* second run: arguments of its writeOutputs call, <<>> if none
    same,             \* history: both runs received equal samples since the last reset
    differed,         \* history: the runs began the last reset call with different max_vals
    walk,             \* position in the loops of a tree stage, with its index history
    tree_chain        \* the chain of the tree-only instantiation of a layer: its outputs

plainVars == <<tdf6_i, tdf6_j, tdf6_k>>

pooledVars == <<tdf2_i, tdf2_j, tdf2_k, tdf2_i_out, tdf2_j_out, tdf2_i_p, tdf2_j_p>>

fusedVars == <<tdf4_i, tdf4_j, tdf4_k>>

plainOut == <<indices>>

fusedOut == <<indices, write>>

pooledOut == <<input_indices, output_indices, resetMaximum, storeOutput>>

genVars == <<variant, plainVars, pooledVars, fusedVars, indices, write, pooledOut, calls, trace>>

accVars == <<stage, products, accum1_out, accum2_out, accum3_out, sum, psum>>

poolVars == <<outputs, max_vals, written, seen, nwin>>

driverVars == <<f, nwrites>>

l2Vars == <<l2_partial_sums, running_sums, l2_written, received>>

laneVars == <<ifmap_vec, weight_vecs, sums>>

stepVars == <<pc, log, valid, stale>>

l2StageVars == <<intermediate_fmaps, l2_products, l2_sums>>

pairVars == <<max_vals_b, written_b, same, differed>>

vars == <<genVars, accVars, poolVars, driverVars, l2Vars, laneVars, config, stepVars, l2StageVars, pairVars, walk, tree_chain>>

\* What a run of the generators alone leaves untouched.
genIdle == <<accVars, poolVars, driverVars, l2Vars, laneVars, config, stepVars, l2StageVars, pairVars, walk, tree_chain>>

\* What a run of the reduction stages alone leaves untouched.
accIdle == <<genVars, poolVars, driverVars, l2Vars, laneVars, config, stepVars, l2StageVars, pairVars, walk, tree_chain>>

\* What a run of the pooled driver leaves untouched.
poolIdle ==
    <<variant, plainVars, fusedVars, indices, write, calls, trace, accVars, l2Vars, laneVars,
      config, stepVars, l2StageVars, pairVars, walk, tree_chain>>

\* uint16_t / uint8_t arithmetic of the static counters
UINT16(x) == x % 65536

UINT8(x) == x % 256

\* OUTPUT_CHANS / OCHAN_SCALE_FACTOR (C integer division)
ChannelGroups == OUTPUT_CHANS \div OCHAN_SCALE_FACTOR

\* L1_OUTPUT_CHANS / OCHAN_SCALE_FACTOR (C integer division)
FusionSteps == L1_OUTPUT_CHANS \div OCHAN_SCALE_FACTOR

(***************************************************************************)
(* Plain index generator: tdf6_get_next_ijk (tdf9, tdf12, tdf3 are         *)
(* verbatim copies).                                                       *)
(***************************************************************************)
\* Mutant: the carry goes to the row counter before the column counter.
tdf6_advance_rowfirst(i, j, k) ==
    LET k1 == UINT16(k + 1) IN
    IF k1 = ChannelGroups
    THEN LET i1 == UINT16(i + 1) IN
         IF i1 = OUTPUT_HEIGHT
         THEN LET j1 == UINT16(j + 1) IN
              IF j1 = OUTPUT_WIDTH
              THEN [i |-> 0, j |-> 0, k |-> 0]
              ELSE [i |-> 0, j |-> j1, k |-> 0]
         ELSE [i |-> i1, j |-> j, k |-> 0]
    ELSE [i |-> i, j |-> j, k |-> k1]

\* The statics after the increments of one call (lines 109-120).
tdf6_advance(i, j, k) ==
    LET k1 == UINT16(k + 1) IN
    IF k1 = ChannelGroups
    THEN LET j1 == UINT16(j + 1) IN
         IF j1 = OUTPUT_WIDTH
         THEN LET i1 == UINT16(i + 1) IN
              IF i1 = OUTPUT_HEIGHT
              THEN [i |-> 0, j |-> 0, k |-> 0]
              ELSE [i |-> i1, j |-> 0, k |-> 0]
         ELSE [i |-> i, j |-> j1, k |-> 0]
    ELSE [i |-> i, j |-> j, k |-> k1]

\* One call of tdf6_get_next_ijk(indices).
tdf6_get_next_ijk ==
    /\ indices' = <<tdf6_i, tdf6_j, tdf6_k>>
    /\ LET n == tdf6_advance(tdf6_i, tdf6_j, tdf6_k) IN
         /\ tdf6_i' = n.i
         /\ tdf6_j' = n.j
         /\ tdf6_k' = n.k

\* TOP_LOOP_ITERATIONS of a plain layer: one call per (i, j, k).
PlainIterations == OUTPUT_HEIGHT * OUTPUT_WIDTH * ChannelGroups

(***************************************************************************)
(* Pooled index generator: tdf2_get_next_ijk (tdf1 and tdf8 are verbatim   *)
(* copies).                                                                *)
(***************************************************************************)
\* Mutant: the flags are computed from the counters after the increments.
tdf2_flags_late(i_p, j_p) ==
    LET j1 == UINT8(j_p + 1)
        jn == IF j1 = POOLING_FACTOR THEN 0 ELSE j1
        i1 == IF j1 = POOLING_FACTOR THEN UINT8(i_p + 1) ELSE i_p
        in == IF i1 = POOLING_FACTOR THEN 0 ELSE i1
    IN [reset |-> (in = 0 /\ jn = 0),
        store |-> (in = POOLING_FACTOR - 1) /\ (jn = POOLING_FACTOR - 1)]

\* Mutant: the maximum is restarted at the start of every row of the window.
tdf2_flags_rowreset(i_p, j_p) ==
    [reset |-> (j_p = 0),
     store |-> (i_p = POOLING_FACTOR - 1) /\ (j_p = POOLING_FACTOR - 1)]

\* *resetMaximum and *storeOutput (lines 124-125), from the counters at entry.
tdf2_flags(i_p, j_p) ==
    [reset |-> (i_p = 0 /\ j_p = 0),
     store |-> (i_p = POOLING_FACTOR - 1) /\ (j_p = POOLING_FACTOR - 1)]

\* Mutant: the channel group advances before the pooling sub-position.
tdf2_advance_kfirst(i, j, k, i_out, j_out, i_p, j_p) ==
    LET s == [i |-> i, j |-> j, k |-> k, i_out |-> i_out, j_out |-> j_out,
              i_p |-> i_p, j_p |-> j_p]
        k1 == UINT16(k + 1)
    IN
    IF k1 = ChannelGroups
    THEN LET jp1 == UINT8(j_p + 1) IN
         IF jp1 = POOLING_FACTOR
         THEN LET ip1 == UINT8(i_p + 1) IN
              IF ip1 = POOLING_FACTOR
              THEN LET jo1 == UINT16(j_out + 1) IN
                   IF jo1 = OUTPUT_WIDTH
                   THEN LET io1 == UINT16(i_out + 1) IN
                        IF io1 = OUTPUT_HEIGHT
                        THEN [s EXCEPT !.k = 0, !.j_p = 0, !.i_p = 0, !.j = 0, !.j_out = 0,
                                       !.i = 0, !.i_out = 0]
                        ELSE [s EXCEPT !.k = 0, !.j_p = 0, !.i_p = 0, !.j = 0, !.j_out = 0,
                                       !.i = UINT16(i + POOLING_FACTOR), !.i_out = io1]
                   ELSE [s EXCEPT !.k = 0, !.j_p = 0, !.i_p = 0,
                                  !.j = UINT16(j + POOLING_FACTOR), !.j_out = jo1]
              ELSE [s EXCEPT !.k = 0, !.j_p = 0, !.i_p = ip1]
         ELSE [s EXCEPT !.k = 0, !.j_p = jp1]
    ELSE [s EXCEPT !.k = k1]

\* Mutant: the wrap of the last row forgets to reset the input row i.
tdf2_advance_norowreset(i, j, k, i_out, j_out, i_p, j_p) ==
    LET s == [i |-> i, j |-> j, k |-> k, i_out |-> i_out, j_out |-> j_out,
              i_p |-> i_p, j_p |-> j_p]
        jp1 == UINT8(j_p + 1)
    IN
    IF jp1 = POOLING_FACTOR
    THEN LET ip1 == UINT8(i_p + 1) IN
         IF ip1 = POOLING_FACTOR
         THEN LET k1 == UINT16(k + 1) IN
              IF k1 = ChannelGroups
              THEN LET jo1 == UINT16(j_out + 1) IN
                   IF jo1 = OUTPUT_WIDTH
                   THEN LET io1 == UINT16(i_out + 1) IN
                        IF io1 = OUTPUT_HEIGHT
                        THEN [s EXCEPT !.j_p = 0, !.i_p = 0, !.k = 0, !.j = 0, !.j_out = 0,
                                       !.i = UINT16(i + POOLING_FACTOR), !.i_out = 0]
                        ELSE [s EXCEPT !.j_p = 0, !.i_p = 0, !.k = 0, !.j = 0, !.j_out = 0,
                                       !.i = UINT16(i + POOLING_FACTOR), !.i_out = io1]
                   ELSE [s EXCEPT !.j_p = 0, !.i_p = 0, !.k = 0,
                                  !.j = UINT16(j + POOLING_FACTOR), !.j_out = jo1]
              ELSE [s EXCEPT !.j_p = 0, !.i_p = 0, !.k = k1]
         ELSE [s EXCEPT !.j_p = 0, !.i_p = ip1]
    ELSE [s EXCEPT !.j_p = jp1]

\* Mutant: the channel group advances after a row of the window, before the next row.
tdf2_advance_kmiddle(i, j, k, i_out, j_out, i_p, j_p) ==
    LET s == [i |-> i, j |-> j, k |-> k, i_out |-> i_out, j_out |-> j_out,
              i_p |-> i_p, j_p |-> j_p]
        jp1 == UINT8(j_p + 1)
    IN
    IF jp1 = POOLING_FACTOR
    THEN LET k1 == UINT16(k + 1) IN
         IF k1 = ChannelGroups
         THEN LET ip1 == UINT8(i_p + 1) IN
              IF ip1 = POOLING_FACTOR
              THEN LET jo1 == UINT16(j_out + 1) IN
                   IF jo1 = OUTPUT_WIDTH
                   THEN LET io1 == UINT16(i_out + 1) IN
                        IF io1 = OUTPUT_HEIGHT
                        THEN [s EXCEPT !.j_p = 0, !.i_p = 0, !.k = 0, !.j = 0, !.j_out = 0,
                                       !.i = 0, !.i_out = 0]
                        ELSE [s EXCEPT !.j_p = 0, !.i_p = 0, !.k = 0, !.j = 0, !.j_out = 0,
                                       !.i = UINT16(i + POOLING_FACTOR), !.i_out = io1]
                   ELSE [s EXCEPT !.j_p = 0, !.i_p = 0, !.k = 0,
                                  !.j = UINT16(j + POOLING_FACTOR), !.j_out = jo1]
              ELSE [s EXCEPT !.j_p = 0, !.k = 0, !.i_p = ip1]
         ELSE [s EXCEPT !.j_p = 0, !.k = k1]
    ELSE [s EXCEPT !.j_p = jp1]

\* Mutant: the window is walked column by column (i_p advances before j_p).
tdf2_advance_colmajor(i, j, k, i_out, j_out, i_p, j_p) ==
    LET s == [i |-> i, j |-> j, k |-> k, i_out |-> i_out, j_out |-> j_out,
              i_p |-> i_p, j_p |-> j_p]
        ip1 == UINT8(i_p + 1)
    IN
    IF ip1 = POOLING_FACTOR
    THEN LET jp1 == UINT8(j_p + 1) IN
         IF jp1 = POOLING_FACTOR
         THEN LET k1 == UINT16(k + 1) IN
              IF k1 = ChannelGroups
              THEN LET jo1 == UINT16(j_out + 1) IN
                   IF jo1 = OUTPUT_WIDTH
                   THEN LET io1 == UINT16(i_out + 1) IN
                        IF io1 = OUTPUT_HEIGHT
                        THEN [s EXCEPT !.j_p = 0, !.i_p = 0, !.k = 0, !.j = 0, !.j_out = 0,
                                       !.i = 0, !.i_out = 0]
                        ELSE [s EXCEPT !.j_p = 0, !.i_p = 0, !.k = 0, !.j = 0, !.j_out = 0,
                                       !.i = UINT16(i + POOLING_FACTOR), !.i_out = io1]
                   ELSE [s EXCEPT !.j_p = 0, !.i_p = 0, !.k = 0,
                                  !.j = UINT16(j + POOLING_FACTOR), !.j_out = jo1]
              ELSE [s EXCEPT !.j_p = 0, !.i_p = 0, !.k = k1]
         ELSE [s EXCEPT !.i_p = 0, !.j_p = jp1]
    ELSE [s EXCEPT !.i_p = ip1]

\* Mutant: the input column advances by one, not by the width of the window.
tdf2_advance_unitstride(i, j, k, i_out, j_out, i_p, j_p) ==
    LET s == [i |-> i, j |-> j, k |-> k, i_out |-> i_out, j_out |-> j_out,
              i_p |-> i_p, j_p |-> j_p]
        jp1 == UINT8(j_p + 1)
    IN
    IF jp1 = POOLING_FACTOR
    THEN LET ip1 == UINT8(i_p + 1) IN
         IF ip1 = POOLING_FACTOR
         THEN LET k1 == UINT16(k + 1) IN
              IF k1 = ChannelGroups
              THEN LET jo1 == UINT16(j_out + 1) IN
                   IF jo1 = OUTPUT_WIDTH
                   THEN LET io1 == UINT16(i_out + 1) IN
                        IF io1 = OUTPUT_HEIGHT
                        THEN [s EXCEPT !.j_p = 0, !.i_p = 0, !.k = 0, !.j = 0, !.j_out = 0,
                                       !.i = 0, !.i_out = 0]
                        ELSE [s EXCEPT !.j_p = 0, !.i_p = 0, !.k = 0, !.j = 0, !.j_out = 0,
                                       !.i = UINT16(i + POOLING_FACTOR), !.i_out = io1]
                   ELSE [s EXCEPT !.j_p = 0, !.i_p = 0, !.k = 0,
                                  !.j = UINT16(j + 1), !.j_out = jo1]
              ELSE [s EXCEPT !.j_p = 0, !.i_p = 0, !.k = k1]
         ELSE [s EXCEPT !.j_p = 0, !.i_p = ip1]
    ELSE [s EXCEPT !.j_p = jp1]

\* Mutant: the wrap of the last column forgets to reset the input column j.
tdf2_advance_nocolreset(i, j, k, i_out, j_out, i_p, j_p) ==
    LET s == [i |-> i, j |-> j, k |-> k, i_out |-> i_out, j_out |-> j_out,
              i_p |-> i_p, j_p |-> j_p]
        jp1 == UINT8(j_p + 1)
    IN
    IF jp1 = POOLING_FACTOR
    THEN LET ip1 == UINT8(i_p + 1) IN
         IF ip1 = POOLING_FACTOR
         THEN LET k1 == UINT16(k + 1) IN
              IF k1 = ChannelGroups
              THEN LET jo1 == UINT16(j_out + 1) IN
                   IF jo1 = OUTPUT_WIDTH
                   THEN LET io1 == UINT16(i_out + 1) IN
                        IF io1 = OUTPUT_HEIGHT
                        THEN [s EXCEPT !.j_p = 0, !.i_p = 0, !.k = 0, !.j = 0, !.j_out = 0,
                                       !.i = 0, !.i_out = 0]
                        ELSE [s EXCEPT !.j_p = 0, !.i_p = 0, !.k = 0,
                                       !.j = UINT16(j + POOLING_FACTOR), !.j_out = 0,
                                       !.i = UINT16(i + POOLING_FACTOR), !.i_out = io1]
                   ELSE [s EXCEPT !.j_p = 0, !.i_p = 0, !.k = 0,
                                  !.j = UINT16(j + POOLING_FACTOR), !.j_out = jo1]
              ELSE [s EXCEPT !.j_p = 0, !.i_p = 0, !.k = k1]
         ELSE [s EXCEPT !.j_p = 0, !.i_p = ip1]
    ELSE [s EXCEPT !.j_p = jp1]

\* Mutant: the window column wraps one step late, when it has passed POOLING_FACTOR.
tdf2_advance_latewrap(i, j, k, i_out, j_out, i_p, j_p) ==
    LET s == [i |-> i, j |-> j, k |-> k, i_out |-> i_out, j_out |-> j_out,
              i_p |-> i_p, j_p |-> j_p]
        jp1 == UINT8(j_p + 1)
    IN
    IF jp1 = POOLING_FACTOR + 1
    THEN LET ip1 == UINT8(i_p + 1) IN
         IF ip1 = POOLING_FACTOR
         THEN LET k1 == UINT16(k + 1) IN
              IF k1 = ChannelGroups
              THEN LET jo1 == UINT16(j_out + 1) IN
                   IF jo1 = OUTPUT_WIDTH
                   THEN LET io1 == UINT16(i_out + 1) IN
                        IF io1 = OUTPUT_HEIGHT
                        THEN [s EXCEPT !.j_p = 0, !.i_p = 0, !.k = 0, !.j = 0, !.j_out = 0,
                                       !.i = 0, !.i_out = 0]
                        ELSE [s EXCEPT !.j_p = 0, !.i_p = 0, !.k = 0, !.j = 0, !.j_out = 0,
                                       !.i = UINT16(i + POOLING_FACTOR), !.i_out = io1]
                   ELSE [s EXCEPT !.j_p = 0, !.i_p = 0, !.k = 0,
                                  !.j = UINT16(j + POOLING_FACTOR), !.j_out = jo1]
              ELSE [s EXCEPT !.j_p = 0, !.i_p = 0, !.k = k1]
         ELSE [s EXCEPT !.j_p = 0, !.i_p = ip1]
    ELSE [s EXCEPT !.j_p = jp1]

\* The statics after the increments of one call (lines 131-154).
tdf2_advance(i, j, k, i_out, j_out, i_p, j_p) ==
    LET s == [i |-> i, j |-> j, k |-> k, i_out |-> i_out, j_out |-> j_out,
              i_p |-> i_p, j_p |-> j_p]
        jp1 == UINT8(j_p + 1)
    IN
    IF jp1 = POOLING_FACTOR
    THEN LET ip1 == UINT8(i_p + 1) IN
         IF ip1 = POOLING_FACTOR
         THEN LET k1 == UINT16(k + 1) IN
              IF k1 = ChannelGroups
              THEN LET jo1 == UINT16(j_out + 1) IN
                   IF jo1 = OUTPUT_WIDTH
                   THEN LET io1 == UINT16(i_out + 1) IN
                        IF io1 = OUTPUT_HEIGHT
                        THEN [s EXCEPT !.j_p = 0, !.i_p = 0, !.k = 0, !.j = 0, !.j_out = 0,
                                       !.i = 0, !.i_out = 0]
                        ELSE [s EXCEPT !.j_p = 0, !.i_p = 0, !.k = 0, !.j = 0, !.j_out = 0,
                                       !.i = UINT16(i + POOLING_FACTOR), !.i_out = io1]
                   ELSE [s EXCEPT !.j_p = 0, !.i_p = 0, !.k = 0,
                                  !.j = UINT16(j + POOLING_FACTOR), !.j_out = jo1]
              ELSE [s EXCEPT !.j_p = 0, !.i_p = 0, !.k = k1]
         ELSE [s EXCEPT !.j_p = 0, !.i_p = ip1]
    ELSE [s EXCEPT !.j_p = jp1]

\* assert(i_p <= POOLING_FACTOR); assert(j_p <= POOLING_FACTOR); at the entry of a call.
tdf2_asserts(i_p, j_p) == i_p <= POOLING_FACTOR /\ j_p <= POOLING_FACTOR

\* One call of tdf2_get_next_ijk(input_indices, output_indices, &resetMaximum, &storeOutput).
tdf2_get_next_ijk ==
    /\ resetMaximum' = tdf2_flags(tdf2_i_p, tdf2_j_p).reset
    /\ storeOutput' = tdf2_flags(tdf2_i_p, tdf2_j_p).store
    /\ input_indices' = <<UINT16(tdf2_i + tdf2_i_p), UINT16(tdf2_j + tdf2_j_p), tdf2_k>>
    /\ output_indices' = <<tdf2_i_out, tdf2_j_out>>
    /\ LET n == tdf2_advance(tdf2_i, tdf2_j, tdf2_k, tdf2_i_out, tdf2_j_out,
                             tdf2_i_p, tdf2_j_p) IN
         /\ tdf2_i' = n.i
         /\ tdf2_j' = n.j
         /\ tdf2_k' = n.k
         /\ tdf2_i_out' = n.i_out
         /\ tdf2_j_out' = n.j_out
         /\ tdf2_i_p' = n.i_p
         /\ tdf2_j_p' = n.j_p

\* TOP_LOOP_ITERATIONS of a pooled layer: one call per unpooled output and channel group.
PooledIterations ==
    OUTPUT_HEIGHT * OUTPUT_WIDTH * ChannelGroups * POOLING_FACTOR * POOLING_FACTOR

(***************************************************************************)
(* Fused index generator: tdf4_get_next_ijk (tdf11 is a verbatim copy).    *)
(***************************************************************************)
\* Mutant: the flag is compared against the bound itself.
tdf4_write_offbyone(k) == (k = FusionSteps)

\* *write (line 207), from k at entry.
tdf4_write(k) == (k = FusionSteps - 1)

\* Mutant: k wraps at the group count of the output channels.
tdf4_advance_outchans(i, j, k) ==
    LET k1 == UINT16(k + 1) IN
    IF k1 = ChannelGroups
    THEN LET j1 == UINT16(j + 1) IN
         IF j1 = OUTPUT_WIDTH
         THEN LET i1 == UINT16(i + 1) IN
              IF i1 = OUTPUT_HEIGHT
              THEN [i |-> 0, j |-> 0, k |-> 0]
              ELSE [i |-> i1, j |-> 0, k |-> 0]
         ELSE [i |-> i, j |-> j1, k |-> 0]
    ELSE [i |-> i, j |-> j, k |-> k1]

\* Mutant: the row counter wraps one step late, when it has passed OUTPUT_HEIGHT.
tdf4_advance_latewrap(i, j, k) ==
    LET k1 == UINT16(k + 1) IN
    IF k1 = FusionSteps
    THEN LET j1 == UINT16(j + 1) IN
         IF j1 = OUTPUT_WIDTH
         THEN LET i1 == UINT16(i + 1) IN
              IF i1 = OUTPUT_HEIGHT + 1
              THEN [i |-> 0, j |-> 0, k |-> 0]
              ELSE [i |-> i1, j |-> 0, k |-> 0]
         ELSE [i |-> i, j |-> j1, k |-> 0]
    ELSE [i |-> i, j |-> j, k |-> k1]

\* The statics after the increments of one call (lines 208-219).
tdf4_advance(i, j, k) ==
    LET k1 == UINT16(k + 1) IN
    IF k1 = FusionSteps
    THEN LET j1 == UINT16(j + 1) IN
         IF j1 = OUTPUT_WIDTH
         THEN LET i1 == UINT16(i + 1) IN
              IF i1 = OUTPUT_HEIGHT
              THEN [i |-> 0, j |-> 0, k |-> 0]
              ELSE [i |-> i1, j |-> 0, k |-> 0]
         ELSE [i |-> i, j |-> j1, k |-> 0]
    ELSE [i |-> i, j |-> j, k |-> k1]

\* One call of tdf4_get_next_ijk(indices, &write).
tdf4_get_next_ijk ==
    /\ indices' = <<tdf4_i, tdf4_j, tdf4_k>>
    /\ write' = tdf4_write(tdf4_k)
    /\ LET n == tdf4_advance(tdf4_i, tdf4_j, tdf4_k) IN
         /\ tdf4_i' = n.i
         /\ tdf4_j' = n.j
         /\ tdf4_k' = n.k

\* TOP_LOOP_ITERATIONS of a fused layer: one call per (i, j) and slice of L1 channels.
FusedIterations == OUTPUT_HEIGHT * OUTPUT_WIDTH * FusionSteps

(***************************************************************************)
(* The generators on their own: the top loop of one layer calls its        *)
(* generator once per iteration, MaxPasses runs of the layer in a row.     *)
(***************************************************************************)
InitPlainStatics ==
    /\ tdf6_i = 0
    /\ tdf6_j = 0
    /\ tdf6_k = 0

InitPooledStatics ==
    /\ tdf2_i = 0
    /\ tdf2_j = 0
    /\ tdf2_k = 0
    /\ tdf2_i_out = 0
    /\ tdf2_j_out = 0
    /\ tdf2_i_p = 0
    /\ tdf2_j_p = 0

InitFusedStatics ==
    /\ tdf4_i = 0
    /\ tdf4_j = 0
    /\ tdf4_k = 0

\* The constants of the layer headers, as the model fixes them.
InitBuild ==
    config = [OUTPUT_CHANS |-> OUTPUT_CHANS, OCHAN_SCALE_FACTOR |-> OCHAN_SCALE_FACTOR]

\* The body of TOP_LOOP is about to run its first statement.
InitSteps ==
    /\ pc = 1
    /\ log = <<>>
    /\ valid = {}
    /\ stale = FALSE

InitOutParams ==
    /\ indices = <<0, 0, 0>>
    /\ write = FALSE
    /\ input_indices = <<0, 0, 0>>
    /\ output_indices = <<0, 0>>
    /\ resetMaximum = FALSE
    /\ storeOutput = FALSE

\* A call of the plain generator from the top loop of tdf6, recorded in the history.
PlainCall ==
    /\ variant = "plain"
    /\ calls < MaxPasses * PlainIterations
    /\ tdf6_get_next_ijk
    /\ calls' = calls + 1
    /\ trace' = Append(trace, [st |-> <<tdf6_i, tdf6_j, tdf6_k>>, ret |-> <<indices'>>])
    /\ UNCHANGED <<variant, pooledVars, fusedVars, write, pooledOut, genIdle>>

\* A call of the pooled generator from the top loop of tdf2, recorded in the history.
PooledCall ==
    /\ variant = "pooled"
    /\ calls < MaxPasses * PooledIterations
    /\ tdf2_get_next_ijk
    /\ calls' = calls + 1
    /\ trace' = Append(trace,
            [st |-> <<tdf2_i, tdf2_j, tdf2_k, tdf2_i_out, tdf2_j_out, tdf2_i_p, tdf2_j_p>>,
             ret |-> <<input_indices', output_indices', resetMaximum', storeOutput'>>])
    /\ UNCHANGED <<variant, plainVars, fusedVars, indices, write, genIdle>>

\* A call of the fused generator from the top loop of tdf4, recorded in the history.
FusedCall ==
    /\ variant = "fused"
    /\ calls < MaxPasses * FusedIterations
    /\ tdf4_get_next_ijk
    /\ calls' = calls + 1
    /\ trace' = Append(trace, [st |-> <<tdf4_i, tdf4_j, tdf4_k>>, ret |-> <<indices', write'>>])
    /\ UNCHANGED <<variant, plainVars, pooledVars, pooledOut, genIdle>>

\* The statics and locals of the pooling function before its first call.
InitPool ==
    /\ outputs = [o \in 0..(OCHAN_SCALE_FACTOR - 1) |-> 0]
    /\ max_vals = [o \in 0..(OCHAN_SCALE_FACTOR - 1) |-> 0]
    /\ written = <<>>
    /\ seen = [o \in 0..(OCHAN_SCALE_FACTOR - 1) |-> {}]
    /\ nwin = 0

\* No top loop running.
InitDriverIdle ==
    /\ f = 0
    /\ nwrites = <<>>

\* The fused aggregator before its first call, outside a fused layer.
InitL2Idle ==
    /\ l2_partial_sums = <<>>
    /\ running_sums = <<>>
    /\ l2_written = <<>>
    /\ received = <<>>

\* The locals of the second layer's stages before the first iteration.
\* The second run starts as the first: static max_vals is zero (tdf2.cpp:18).
InitPair ==
    /\ max_vals_b = [o \in 0..(OCHAN_SCALE_FACTOR - 1) |-> 0]
    /\ written_b = <<>>
    /\ same = TRUE
    /\ differed = FALSE

\* No second instantiation is run.
InitChainIdle == tree_chain = <<>>

\* No tree stage is being walked.
InitWalkIdle == walk = <<>>

InitL2StageIdle ==
    /\ intermediate_fmaps = <<>>
    /\ l2_products = <<>>
    /\ l2_sums = <<>>

\* The locals of the top loop before the first iteration.
InitLaneIdle ==
    /\ ifmap_vec = <<>>
    /\ weight_vecs = <<>>
    /\ sums = <<>>

\* No reduction in progress.
InitAccIdle ==
    /\ stage = "idle"
    /\ products = <<>>
    /\ accum1_out = <<>>
    /\ accum2_out = <<>>
    /\ accum3_out = <<>>
    /\ sum = 0
    /\ psum = <<>>

InitGen ==
    /\ variant \in {"plain", "pooled", "fused"}
    /\ InitPlainStatics
    /\ InitPooledStatics
    /\ InitFusedStatics
    /\ InitOutParams
    /\ InitSteps
    /\ InitBuild
    /\ calls = 0
    /\ trace = <<>>
    /\ InitAccIdle
    /\ InitPool
    /\ InitDriverIdle
    /\ InitL2Idle
    /\ InitLaneIdle
    /\ InitL2StageIdle
    /\ InitPair
    /\ InitChainIdle
    /\ InitWalkIdle

NextGen ==
    \/ PlainCall
    \/ PooledCall
    \/ FusedCall

SpecGen == InitGen /\ [][NextGen]_vars

(***************************************************************************)
(* Reduction of one lane in tdf1: products[n] (27 values) goes through     *)
(* tdf1_accum_1 .. tdf1_accum_4.  data_t values are modelled as integers.  *)
(***************************************************************************)
\* Largest magnitude of a data_t value fed to a stage.
MaxData == 2

DataVals == (0 - MaxData)..MaxData

\* Vectors of length n with at most two non-zero elements.
SparseInputs(n) ==
    {[m \in 0..(n - 1) |-> IF m = a THEN x ELSE IF m = b THEN y ELSE 0] :
        a \in 0..(n - 1), b \in 0..(n - 1), x \in DataVals, y \in DataVals}

\* Vectors of length n that alternate between two values with period 2 or 3.
StripedInputs(n) ==
    {[m \in 0..(n - 1) |-> IF m % q = r THEN x ELSE y] :
        q \in 2..3, r \in 0..2, x \in DataVals, y \in DataVals}

\* Mutant: a position past the end of the input repeats the last input.
tdf1_accum_1_repeat(accum_in) ==
    [i1 \in 0..13 |->
        LET i == UINT16(i1 * 2)
            vals == [w \in 0..1 |-> IF i + w < 27 THEN accum_in[i + w] ELSE accum_in[26]]
            sum0 == vals[1] + vals[0]
        IN sum0]

\* tdf1_accum_1: 27 inputs to 14 outputs, words of 2.
tdf1_accum_1(accum_in) ==
    [i1 \in 0..13 |->
        LET i == UINT16(i1 * 2)
            vals == [w \in 0..1 |-> IF i + w < 27 THEN accum_in[i + w] ELSE 0]
            sum0 == vals[1] + vals[0]
        IN sum0]

\* tdf1_accum_2: 14 inputs to 7 outputs, words of 2.
tdf1_accum_2(accum_in) ==
    [i1 \in 0..6 |->
        LET i == UINT16(i1 * 2)
            vals == [w \in 0..1 |-> IF i + w < 14 THEN accum_in[i + w] ELSE 0]
            sum0 == vals[1] + vals[0]
        IN sum0]

\* tdf1_accum_3: 7 inputs to 4 outputs, words of 2.
tdf1_accum_3(accum_in) ==
    [i1 \in 0..3 |->
        LET i == UINT16(i1 * 2)
            vals == [w \in 0..1 |-> IF i + w < 7 THEN accum_in[i + w] ELSE 0]
            sum0 == vals[1] + vals[0]
        IN sum0]

\* tdf1_accum_4: 4 inputs to 1 output.
tdf1_accum_4(accum_in) ==
    LET sum0 == accum_in[3] + accum_in[2]
        sum1 == accum_in[1] + accum_in[0]
        sum2 == sum0 + sum1
    IN sum2

\* tdf1_accum_1(products[n], accum1_out_n)
Tdf1Accum1 ==
    /\ stage = "products"
    /\ accum1_out' = tdf1_accum_1(products)
    /\ stage' = "accum1"
    /\ UNCHANGED <<products, accum2_out, accum3_out, sum, psum, accIdle>>

\* tdf1_accum_2(accum1_out_n, accum2_out_n)
Tdf1Accum2 ==
    /\ stage = "accum1"
    /\ accum2_out' = tdf1_accum_2(accum1_out)
    /\ stage' = "accum2"
    /\ UNCHANGED <<products, accum1_out, accum3_out, sum, psum, accIdle>>

\* tdf1_accum_3(accum2_out_n, accum3_out_n)
Tdf1Accum3 ==
    /\ stage = "accum2"
    /\ accum3_out' = tdf1_accum_3(accum2_out)
    /\ stage' = "accum3"
    /\ UNCHANGED <<products, accum1_out, accum2_out, sum, psum, accIdle>>

\* sums[n] = tdf1_accum_4(accum3_out_n)
Tdf1Accum4 ==
    /\ stage = "accum3"
    /\ sum' = tdf1_accum_4(accum3_out)
    /\ stage' = "sums"
    /\ UNCHANGED <<products, accum1_out, accum2_out, accum3_out, psum, accIdle>>

\* No generator in use.
InitGenIdle ==
    /\ variant = "none"
    /\ InitPlainStatics
    /\ InitPooledStatics
    /\ InitFusedStatics
    /\ InitOutParams
    /\ InitSteps
    /\ InitBuild
    /\ calls = 0
    /\ trace = <<>>
    /\ InitPool
    /\ InitDriverIdle
    /\ InitL2Idle
    /\ InitLaneIdle
    /\ InitL2StageIdle
    /\ InitPair
    /\ InitChainIdle
    /\ InitWalkIdle

InitTdf1Accum ==
    /\ InitGenIdle
    /\ stage = "products"
    /\ products \in SparseInputs(27) \cup StripedInputs(27)
    /\ accum1_out = <<>>
    /\ accum2_out = <<>>
    /\ accum3_out = <<>>
    /\ sum = 0
    /\ psum = <<>>

NextTdf1Accum ==
    \/ Tdf1Accum1
    \/ Tdf1Accum2
    \/ Tdf1Accum3
    \/ Tdf1Accum4

SpecTdf1Accum == InitTdf1Accum /\ [][NextTdf1Accum]_vars

RECURSIVE SumTo(_, _)
\* vec[0] + ... + vec[n-1]
SumTo(vec, n) == IF n = 0 THEN 0 ELSE vec[n - 1] + SumTo(vec, n - 1)

\* C7: for every vector of 27 products, the chain tdf1_accum_1 .. tdf1_accum_4 returns
\* the exact sum of the 27 values; positions past the end of an input contribute 0.
C7_Tdf1ChainIsSum == (stage = "sums") => (sum = SumTo(products, 27))

C7_Witness == stage = "sums" /\ products[26] # 0 /\ products[6] # 0 /\ sum # 0

(***************************************************************************)
(* Interleaved accumulation stage: tdf12_accum_2 (32 inputs to 8 outputs). *)
(* tdf12_accum_1, tdf6_accum_1, tdf11_accum_1 and the first tdf2_accum_1   *)
(* are the same code with other values of PSUM_LEN and INPUT_SIZE.         *)
(*                                                                         *)
(* The local array psum is declared without an initialiser and the loop    *)
(* adds into it, so the values it holds at entry are whatever the storage  *)
(* held before the call: psum is a variable whose value at entry is any    *)
(* element of PsumAtEntry.                                                 *)
(***************************************************************************)
\* Contents of data_t psum[n] at entry: all zero, or one element left non-zero.
PsumAtEntry(n) ==
    {[p \in 0..(n - 1) |-> IF p = q THEN g ELSE 0] : q \in 0..(n - 1), g \in DataVals}

RECURSIVE AccumLoopOuter(_, _, _, _, _)
\* ACCUM_LOOP_OUTER / ACCUM_LOOP_INNER from x on: psum[p] += val for every p.
AccumLoopOuter(accum_in, ps, x, PSUM_LEN, INPUT_SIZE) ==
    IF x < INPUT_SIZE
    THEN AccumLoopOuter(accum_in,
             [p \in 0..(PSUM_LEN - 1) |->
                 LET val == IF (x + p) < INPUT_SIZE THEN accum_in[x + p] ELSE 0
                 IN ps[p] + val],
             x + PSUM_LEN, PSUM_LEN, INPUT_SIZE)
    ELSE ps

\* psum after the accumulation loops of tdf12_accum_2, from its contents at entry.
tdf12_accum_2_psum(accum_in, psum_entry) ==
    LET PSUM_LEN == 8
        INPUT_SIZE == 32
    IN AccumLoopOuter(accum_in, psum_entry, 0, PSUM_LEN, INPUT_SIZE)

\* OUTPUT_LOOP of tdf12_accum_2: accum_out[q] = psum[q].
tdf12_accum_2_out(ps) == [q \in 0..7 |-> ps[q]]

\* tdf12_accum_2(accum1_out_n, accum2_out_n)
Tdf12Accum2 ==
    /\ stage = "accum1"
    /\ psum' = tdf12_accum_2_psum(accum1_out, psum)
    /\ accum2_out' = tdf12_accum_2_out(psum')
    /\ stage' = "accum2"
    /\ UNCHANGED <<products, accum1_out, accum3_out, sum, accIdle>>

\* The stage is entered with some input vector and some contents of the storage of psum.
InitInterleaved ==
    /\ InitGenIdle
    /\ stage = "accum1"
    /\ products = <<>>
    /\ accum1_out \in SparseInputs(32)
    /\ psum \in PsumAtEntry(8)
    /\ accum2_out = <<>>
    /\ accum3_out = <<>>
    /\ sum = 0

NextInterleaved == Tdf12Accum2

SpecInterleaved == InitInterleaved /\ [][NextInterleaved]_vars

\* The sum of accum_in[x+p] over x = 0, PSUM_LEN, 2*PSUM_LEN, ... with x+p < INPUT_SIZE.
StrideSum(accum_in, p, PSUM_LEN, INPUT_SIZE) ==
    SumTo([m \in 0..(INPUT_SIZE - 1) |-> IF m % PSUM_LEN = p THEN accum_in[m] ELSE 0],
          INPUT_SIZE)

\* C8: after a call of the interleaved stage, accum_out[p] is the sum of accum_in[x+p]
\* over x = 0, PSUM_LEN, 2*PSUM_LEN, ... for every p; it depends on the inputs of the
\* call only, so the outputs add up to the sum of the inputs.
C8_InterleavedStageSum ==
    (stage = "accum2") =>
        /\ \A p \in 0..7 : accum2_out[p] = StrideSum(accum1_out, p, 8, 32)
        /\ SumTo(accum2_out, 8) = SumTo(accum1_out, 32)

(***************************************************************************)
(* Pooled driver: the top loop of tdf2 with tdf2_poolOutputs.  The stages  *)
(* between the generator and the pooling function (readInputs ... adjust)  *)
(* are external; they deliver some outputs[] in every iteration.           *)
(***************************************************************************)
\* Largest adjusted value delivered to the pooling function.
MaxPool == 1

PoolVals == 0..MaxPool

Channels == 0..(OCHAN_SCALE_FACTOR - 1)

\* Mutant: the running maximum is never restarted.
tdf2_max_update_noreset(reset, outputs_o, max_o) ==
    LET greaterThanMaximum == (outputs_o > max_o)
    IN IF greaterThanMaximum THEN outputs_o ELSE max_o

\* Mutant: `&&` for `||`, so that a reset call keeps a larger old maximum.
tdf2_max_update_and(reset, outputs_o, max_o) ==
    LET greaterThanMaximum == (outputs_o > max_o)
    IN IF reset /\ greaterThanMaximum THEN outputs_o ELSE max_o

\* max_vals[o] after the loop body of tdf2_poolOutputs (lines 23-24).
tdf2_max_update(reset, outputs_o, max_o) ==
    LET greaterThanMaximum == (outputs_o > max_o)
    IN IF reset \/ greaterThanMaximum THEN outputs_o ELSE max_o

\* Mutant: writeOutputs is called whatever storeOutput says.
tdf2_poolOutputs_alwaysstore(i_out, j_out, k, reset, store, outs) ==
    /\ max_vals' = [o \in Channels |-> tdf2_max_update(reset, outs[o], max_vals[o])]
    /\ written' = [i |-> i_out, j |-> j_out, k |-> k, vals |-> max_vals']

\* Mutant: the values are handed to writeOutputs before the maximum is updated.
tdf2_poolOutputs_writefirst(i_out, j_out, k, reset, store, outs) ==
    /\ max_vals' = [o \in Channels |-> tdf2_max_update(reset, outs[o], max_vals[o])]
    /\ written' = IF store
                  THEN [i |-> i_out, j |-> j_out, k |-> k, vals |-> max_vals]
                  ELSE <<>>

\* tdf2_poolOutputs(i_out, j_out, k, resetMaximum, storeOutput, outputs, out_data);
\* written records the call tdf2_writeOutputs_aligned(i_out, j_out, k, max_vals, out_data).
tdf2_poolOutputs(i_out, j_out, k, reset, store, outs) ==
    /\ max_vals' = [o \in Channels |-> tdf2_max_update(reset, outs[o], max_vals[o])]
    /\ written' = IF store
                  THEN [i |-> i_out, j |-> j_out, k |-> k, vals |-> max_vals']
                  ELSE <<>>

\* The elements of out_data a pooled layer writes: one writeOutputs call per (i_out, j_out, k).
PooledOutCoords ==
    (0..(OUTPUT_HEIGHT - 1)) \X (0..(OUTPUT_WIDTH - 1)) \X (0..(ChannelGroups - 1))

\* One iteration of TOP_LOOP in tdf2.
PoolIteration ==
    /\ variant = "pooled"
    /\ tdf2_get_next_ijk
    /\ \E outs \in [Channels -> PoolVals] :
          /\ outputs' = outs
          /\ tdf2_poolOutputs(output_indices'[1], output_indices'[2], input_indices'[3],
                              resetMaximum', storeOutput', outs)
          /\ seen' = [o \in Channels |->
                         IF resetMaximum' THEN {outs[o]} ELSE seen[o] \cup {outs[o]}]
    /\ nwin' = IF resetMaximum' THEN 1 ELSE nwin + 1
    /\ f' = IF f = PooledIterations THEN 1 ELSE f + 1
    /\ LET base == IF f = PooledIterations THEN [c \in PooledOutCoords |-> 0] ELSE nwrites
       IN nwrites' = IF written' # <<>>
                     THEN [base EXCEPT ![<<written'.i, written'.j, written'.k>>] = @ + 1]
                     ELSE base
    /\ UNCHANGED poolIdle

InitPoolDriver ==
    /\ variant = "pooled"
    /\ InitPlainStatics
    /\ InitPooledStatics
    /\ InitFusedStatics
    /\ InitOutParams
    /\ InitSteps
    /\ InitBuild
    /\ calls = 0
    /\ trace = <<>>
    /\ InitAccIdle
    /\ InitPool
    /\ f = 0
    /\ nwrites = [c \in PooledOutCoords |-> 0]
    /\ InitL2Idle
    /\ InitLaneIdle
    /\ InitL2StageIdle
    /\ InitPair
    /\ InitChainIdle
    /\ InitWalkIdle

NextPool == PoolIteration

SpecPool == InitPoolDriver /\ [][NextPool]_vars

\* The largest element of a non-empty finite set of integers.
SetMax(S) == CHOOSE m \in S : \A x \in S : x <= m

\* C9: in every call of poolOutputs, for every channel o, the new max_vals[o] is
\* outputs[o] if resetMaximum is true, whatever the old max_vals[o]; otherwise it is
\* outputs[o] if outputs[o] > max_vals[o] and the old max_vals[o] if not.
C9_MaxPoolUpdateRule ==
    [][\A o \in Channels :
          max_vals'[o] =
              IF resetMaximum' THEN outputs'[o]
              ELSE IF outputs'[o] > max_vals[o] THEN outputs'[o] ELSE max_vals[o]]_vars

C9_Witness ==
    /\ nwin >= 2
    /\ ~resetMaximum
    /\ \E o \in Channels : outputs[o] < max_vals[o]
    /\ \E o \in Channels : outputs[o] = max_vals[o] /\ outputs[o] > 0

\* C10: driven by the pooled generator, after the n-th call of a window (n = 1..P*P)
\* max_vals[o] is the maximum of the n values received for channel o since the reset
\* call, that call included; the value handed to writeOutputs at the commit call is the
\* maximum of all P*P values of the window, the last one included, and nothing is
\* written before the commit call.
C10_MaxPoolWindow ==
    (nwin > 0) =>
        /\ nwin \in 1..(POOLING_FACTOR * POOLING_FACTOR)
        /\ \A o \in Channels :
              /\ outputs[o] \in seen[o]
              /\ Cardinality(seen[o]) <= nwin
              /\ max_vals[o] = SetMax(seen[o])
        /\ storeOutput <=> (nwin = POOLING_FACTOR * POOLING_FACTOR)
        /\ storeOutput =>
              /\ written # <<>>
              /\ \A o \in Channels : written.vals[o] = SetMax(seen[o])
        /\ ~storeOutput => written = <<>>

C10_Witness ==
    /\ storeOutput
    /\ nwin = POOLING_FACTOR * POOLING_FACTOR
    /\ written # <<>>
    /\ \E o \in Channels : written.vals[o] > outputs[o]

(***************************************************************************)
(* Fused driver: the top loop of tdf4 with tdf4_l2_writeOutputs (tdf11 is  *)
(* the same code).  The stages up to tdf4_l2_accum deliver some            *)
(* l2_partial_sums[] in every iteration.  OUTPUT_CHANS of a fused layer is *)
(* a whole number of URAM rows of four words (tdf4_l2_accum walks it in    *)
(* groups of 16).                                                          *)
(***************************************************************************)
\* Number of groups of 16 output channels of a fused layer (tdf4_l2_accum walks the
\* channels in groups of 16, tdf4_l2_writeOutputs stores them in rows of four).
OutputGroups == 1

\* OUTPUT_CHANS of tdf4.
tdf4_OUTPUT_CHANS == 16 * OutputGroups

\* Largest partial sum delivered to the running-sum stage.
MaxPartial == 1

L2Channels == 0..(tdf4_OUTPUT_CHANS - 1)

\* Partial-sum vectors: all channels equal, or only the first or only the
\* last channel non-zero.
PartialSumInputs ==
    {[o \in L2Channels |-> v] : v \in 0..MaxPartial}
        \cup {[o \in L2Channels |-> IF o = q THEN MaxPartial ELSE 0] :
                 q \in {0, tdf4_OUTPUT_CHANS - 1}}

\* l2_adjustments[ochan][0..2]: the row of the adjustment table of a channel.
l2_adjustments == [o \in L2Channels |-> [mean |-> o, inv_sqrt_var |-> o, bias |-> o]]

\* tdf4_adjust_value(sum, mean, inv_sqrt_var, bias): an external pure function, kept as
\* the term of its arguments.
tdf4_adjust_value(val, mean, inv_sqrt_var, bias) ==
    [adjusted |-> val, mean |-> mean, inv_sqrt_var |-> inv_sqrt_var, bias |-> bias]

\* Mutant: a non-final call keeps the partial sum instead of the accumulated sum.
tdf4_running_sum_keepval(wr, val, sum0) == IF wr THEN 0 ELSE val

\* Mutant: the final call of a position leaves the accumulated sum in place.
tdf4_running_sum_noreset(wr, val, sum0) == sum0

\* Mutant: the final call of a position leaves the last partial sum behind.
tdf4_running_sum_carry(wr, val, sum0) == IF wr THEN val ELSE sum0

\* running_sums[ochan] = write ? (data_t)0 : sum (line 93).
tdf4_running_sum(wr, val, sum0) == IF wr THEN 0 ELSE sum0

\* data_t sum = running_sums[ochan] + val (line 90).
tdf4_l2_sum(rs, val) == rs + val

\* Mutant: the row is written whenever it is complete, final call or not.
tdf4_row_complete_always(wr, ochan) == (ochan % 4 = 3)

\* Mutant: the row is written on the calls that are not final.
tdf4_row_complete_inverted(wr, ochan) == ~wr /\ (ochan % 4 = 3)

\* write && (ochan % 4 == 3) (line 103).
tdf4_row_complete(wr, ochan) == wr /\ (ochan % 4 = 3)

\* Mutant: the words of the row are stored in reverse order.
tdf4_ochan_idx_reversed(ochan, q) == UINT16(((ochan \div 4) * 4) + (3 - q))

\* uint16_t ochan_idx = ((ochan/4)*4) + q (line 105).
tdf4_ochan_idx(ochan, q) == UINT16(((ochan \div 4) * 4) + q)

\* assert(i_int < OUTPUT_HEIGHT); assert(j_int < OUTPUT_WIDTH);
\* assert(ochan_idx < OUTPUT_CHANS); before each assignment to out_data (lines 106-108).
tdf4_l2_asserts(i_int, j_int, ochan_idx) ==
    /\ i_int < OUTPUT_HEIGHT
    /\ j_int < OUTPUT_WIDTH
    /\ ochan_idx < tdf4_OUTPUT_CHANS

RECURSIVE tdf4_l2_loop(_, _, _, _, _, _, _, _)
\* The loop over ochan of tdf4_l2_writeOutputs from ochan on: rs is running_sums, quad
\* the four-word buffer, out the elements of out_data assigned so far.
tdf4_l2_loop(ochan, rs, quad, out, i_int, j_int, wr, partial) ==
    IF ochan < tdf4_OUTPUT_CHANS
    THEN LET val == partial[ochan]
             sum0 == tdf4_l2_sum(rs[ochan], val)
             rs1 == [rs EXCEPT ![ochan] = tdf4_running_sum(wr, val, sum0)]
             mean == l2_adjustments[ochan].mean
             inv_sqrt_var == l2_adjustments[ochan].inv_sqrt_var
             bias == l2_adjustments[ochan].bias
             quad1 == [quad EXCEPT ![ochan % 4] =
                          tdf4_adjust_value(sum0, mean, inv_sqrt_var, bias)]
             row == [q \in 0..3 |-> <<i_int, j_int, tdf4_ochan_idx(ochan, q)>>]
             out1 == IF tdf4_row_complete(wr, ochan)
                     THEN [c \in DOMAIN out \cup {row[q] : q \in 0..3} |->
                              IF \E q \in 0..3 : row[q] = c
                              THEN quad1[CHOOSE q \in 0..3 : row[q] = c]
                              ELSE out[c]]
                     ELSE out
         IN tdf4_l2_loop(UINT16(ochan + 1), rs1, quad1, out1, i_int, j_int, wr, partial)
    ELSE [running_sums |-> rs, out |-> out]

RECURSIVE tdf4_l2_assignments(_, _, _, _)
\* The elements of out_data the loop of tdf4_l2_writeOutputs assigns from ochan on, one
\* entry per execution of the assignment of line 109, in order.
tdf4_l2_assignments(ochan, i_int, j_int, wr) ==
    IF ochan < tdf4_OUTPUT_CHANS
    THEN (IF tdf4_row_complete(wr, ochan)
          THEN [q \in 1..4 |-> <<i_int, j_int, tdf4_ochan_idx(ochan, q - 1)>>]
          ELSE <<>>)
         \o tdf4_l2_assignments(UINT16(ochan + 1), i_int, j_int, wr)
    ELSE <<>>

\* tdf4_l2_writeOutputs(i_int, j_int, write, l2_partial_sums, out_data, l2_adjustments).
\* quad is a local without initialiser; each word is assigned before the row is read.
tdf4_l2_writeOutputs(i_int, j_int, wr, partial) ==
    LET r == tdf4_l2_loop(0, running_sums, [q \in 0..3 |-> [unset |-> TRUE]], <<>>,
                          i_int, j_int, wr, partial)
    IN /\ running_sums' = r.running_sums
       /\ l2_written' = r.out

\* The elements of out_data of a fused layer.
FusedOutCoords == (0..(OUTPUT_HEIGHT - 1)) \X (0..(OUTPUT_WIDTH - 1)) \X L2Channels

\* One iteration of TOP_LOOP in tdf4.
FusedIteration ==
    /\ variant = "fused"
    /\ tdf4_get_next_ijk
    /\ \E partial \in PartialSumInputs :
          /\ l2_partial_sums' = partial
          /\ tdf4_l2_writeOutputs(indices'[1], indices'[2], write', partial)
          /\ received' = IF f # 0 /\ indices'[1] = indices[1] /\ indices'[2] = indices[2]
                         THEN Append(received, partial)
                         ELSE <<partial>>
    /\ f' = IF f = FusedIterations THEN 1 ELSE f + 1
    /\ LET base == IF f = FusedIterations THEN [c \in FusedOutCoords |-> 0] ELSE nwrites
       IN nwrites' = [c \in FusedOutCoords |->
                         IF c \in DOMAIN l2_written' THEN base[c] + 1 ELSE base[c]]
    /\ UNCHANGED <<variant, plainVars, pooledVars, pooledOut, calls, trace, accVars, poolVars,
                   laneVars, config, stepVars, l2StageVars, pairVars, walk, tree_chain>>

\* The statics of tdf4 before the first run: running_sums has static storage, all zero.
InitFusedDriver ==
    /\ variant = "fused"
    /\ InitPlainStatics
    /\ InitPooledStatics
    /\ InitFusedStatics
    /\ InitOutParams
    /\ InitSteps
    /\ InitBuild
    /\ calls = 0
    /\ trace = <<>>
    /\ InitAccIdle
    /\ InitPool
    /\ f = 0
    /\ nwrites = [c \in FusedOutCoords |-> 0]
    /\ l2_partial_sums = [o \in L2Channels |-> 0]
    /\ running_sums = [o \in L2Channels |-> 0]
    /\ l2_written = <<>>
    /\ received = <<>>
    /\ InitLaneIdle
    /\ InitL2StageIdle
    /\ InitPair
    /\ InitChainIdle
    /\ InitWalkIdle

NextFused == FusedIteration

SpecFused == InitFusedDriver /\ [][NextFused]_vars

\* The adjustment of a raw sum of channel o, as tdf4_l2_writeOutputs requests it.
L2Adjusted(raw, o) ==
    tdf4_adjust_value(raw, l2_adjustments[o].mean, l2_adjustments[o].inv_sqrt_var,
                      l2_adjustments[o].bias)

\* C11: in every call of l2_writeOutputs, for every output channel o: with write false
\* the new running_sums[o] is the old running_sums[o] plus l2_partial_sums[o] and nothing
\* is written; with write true the value written to out_data[i][j][o] is the adjustment
\* of the old running_sums[o] plus l2_partial_sums[o], and the new running_sums[o] is 0.
C11_FusedRunningSumStep ==
    [][\A o \in L2Channels :
          /\ ~write' =>
                /\ running_sums'[o] = running_sums[o] + l2_partial_sums'[o]
                /\ l2_written' = <<>>
          /\ write' =>
                /\ <<indices'[1], indices'[2], o>> \in DOMAIN l2_written'
                /\ l2_written'[<<indices'[1], indices'[2], o>>]
                       = L2Adjusted(running_sums[o] + l2_partial_sums'[o], o)
                /\ running_sums'[o] = 0]_vars

C11_Witness ==
    /\ f > FusionSteps
    /\ write
    /\ \E o \in L2Channels :
          /\ l2_partial_sums[o] > 0
          /\ l2_written[<<indices[1], indices[2], o>>].adjusted > l2_partial_sums[o]
          /\ running_sums[o] = 0

RECURSIVE ReceivedSum(_, _, _)
\* The sum over the first n vectors of rcv of their element o.
ReceivedSum(rcv, o, n) == IF n = 0 THEN 0 ELSE rcv[n][o] + ReceivedSum(rcv, o, n - 1)

\* C12: driven by the fused generator, the k-th call of a position is the call that
\* returns index k-1; out_data is written on the FusionSteps-th call of the position and
\* on no other; the raw sum adjusted and written for channel o is the sum of the
\* FusionSteps partial sums received for that position and of nothing else, and
\* running_sums[o] is 0 right after the write.
C12_FusionAccumulation ==
    (f > 0) =>
        /\ Len(received) = indices[3] + 1
        /\ Len(received) <= FusionSteps
        /\ (l2_written # <<>>) <=> (Len(received) = FusionSteps)
        /\ \A o \in L2Channels :
              /\ Len(received) < FusionSteps =>
                    running_sums[o] = ReceivedSum(received, o, Len(received))
              /\ Len(received) = FusionSteps =>
                    /\ l2_written[<<indices[1], indices[2], o>>]
                           = L2Adjusted(ReceivedSum(received, o, FusionSteps), o)
                    /\ running_sums[o] = 0

C12_Witness ==
    /\ f = 2 * FusionSteps
    /\ Len(received) = FusionSteps
    /\ \E o \in L2Channels :
          /\ \A n \in 1..FusionSteps : received[n][o] > 0
          /\ l2_written[<<indices[1], indices[2], o>>].adjusted = FusionSteps * MaxPartial

(***************************************************************************)
(* The two drivers with an aggregator that holds state between iterations: *)
(* a pooled layer (tdf2, tdf8) or a fused layer (tdf4), run after run.     *)
(***************************************************************************)
InitAgg == InitPoolDriver \/ InitFusedDriver

NextAgg ==
    \/ PoolIteration
    \/ FusedIteration

SpecAgg == InitAgg /\ [][NextAgg]_vars

\* C13: in the pooled and in the fused driver an iteration writes the output store iff
\* its commit flag (storeOutput / write) is true; within a run no element of the output
\* store is written twice, and at the end of a run every element has been written once.
C13_WriteExactlyOnCommit ==
    /\ (variant = "pooled" /\ f > 0) =>
          /\ (written # <<>>) <=> storeOutput
          /\ storeOutput =>
                <<written.i, written.j, written.k>> = <<output_indices[1], output_indices[2],
                                                        input_indices[3]>>
          /\ \A c \in PooledOutCoords : nwrites[c] <= 1
          /\ (f = PooledIterations) => \A c \in PooledOutCoords : nwrites[c] = 1
    /\ (variant = "fused" /\ f > 0) =>
          /\ (l2_written # <<>>) <=> write
          /\ write => DOMAIN l2_written = {<<indices[1], indices[2], o>> : o \in L2Channels}
          /\ \A c \in FusedOutCoords : nwrites[c] <= 1
          /\ (f = FusedIterations) => \A c \in FusedOutCoords : nwrites[c] = 1

C13_Witness ==
    /\ variant = "pooled"
    /\ f = PooledIterations
    /\ storeOutput
    /\ written # <<>>
    /\ \A c \in PooledOutCoords : nwrites[c] = 1

(***************************************************************************)
(* Plain driver of tdf12: the top loop with the generator, the four        *)
(* accumulation stages of every lane, adjust and writeOutputs.  The        *)
(* product vectors come from the external stages readInputs, readFilters   *)
(* and dot_product.  tdf12_accum_1 and tdf12_accum_2 are interleaved       *)
(* stages: each call finds in its psum whatever the storage holds.         *)
(***************************************************************************)
\* Product vectors of length n handed to a lane: all elements equal, or only the last set.
LaneProducts(n) ==
    {[m \in 0..(n - 1) |-> v] : v \in 0..1}
        \cup {[m \in 0..(n - 1) |-> IF m = n - 1 THEN 1 ELSE 0]}

\* Two of the contents the storage of psum[n] can hold when a stage is entered: zeros,
\* or (dirty) a value left in element 0.
PsumLeft(n, dirty) == [p \in 0..(n - 1) |-> IF dirty /\ p = 0 THEN 1 ELSE 0]

\* The calls of an iteration that find their psum dirty: none, or one call <<stage, lane>>.
DirtyCalls == {<<0, 0>>} \cup ({1, 2} \X Channels)

RECURSIVE SumRange(_, _, _)
\* vec[lo] + ... + vec[hi], by halves.
SumRange(vec, lo, hi) ==
    IF lo > hi THEN 0
    ELSE IF lo = hi THEN vec[lo]
    ELSE LET mid == (lo + hi) \div 2
         IN SumRange(vec, lo, mid) + SumRange(vec, mid + 1, hi)

\* psum after the accumulation loops of tdf12_accum_1, from its contents at entry.
tdf12_accum_1_psum(accum_in, psum_entry) ==
    LET PSUM_LEN == 32
        INPUT_SIZE == 128
    IN AccumLoopOuter(accum_in, psum_entry, 0, PSUM_LEN, INPUT_SIZE)

\* OUTPUT_LOOP of tdf12_accum_1: accum_out[q] = psum[q].
tdf12_accum_1_out(ps) == [q \in 0..31 |-> ps[q]]

\* tdf12_accum_3: 8 inputs to 4 outputs, words of 2.
tdf12_accum_3(accum_in) ==
    [i1 \in 0..3 |->
        LET i == UINT16(i1 * 2)
            vals == [w \in 0..1 |-> IF i + w < 8 THEN accum_in[i + w] ELSE 0]
            sum0 == vals[1] + vals[0]
        IN sum0]

RECURSIVE SimpleAccum(_, _, _)
\* for (int i = from; i < 4; i++) sum += accum_in[i], from the value of sum so far.
SimpleAccum(accum_in, i, acc) ==
    IF i < 4 THEN SimpleAccum(accum_in, i + 1, acc + accum_in[i]) ELSE acc

\* tdf12_accum_4: data_t sum = 0.0; four additions.
tdf12_accum_4(accum_in) == SimpleAccum(accum_in, 0, 0)

\* tdf12_adjust(sums, outputs, adjustments, k_int): an external pure function of the sum
\* and of the row of the adjustment table of the absolute channel, kept as a term.
tdf12_adjust(lane_sums, k) ==
    [o \in Channels |-> [adjusted |-> lane_sums[o], ochan |-> k * OCHAN_SCALE_FACTOR + o]]

\* Mutant: the values are stored at the coordinate the generator will return next.
tdf12_writeOutputs_next(i_int, j_int, k_int, outs) ==
    [i |-> tdf6_i', j |-> tdf6_j', k |-> tdf6_k', vals |-> outs]

\* tdf12_writeOutputs_unaligned(i_int, j_int, k_int, outputs, out_data): the call.
tdf12_writeOutputs(i_int, j_int, k_int, outs) ==
    [i |-> i_int, j |-> j_int, k |-> k_int, vals |-> outs]

\* The elements of out_data a plain layer writes: one writeOutputs call per (i, j, k).
PlainOutCoords ==
    (0..(OUTPUT_HEIGHT - 1)) \X (0..(OUTPUT_WIDTH - 1)) \X (0..(ChannelGroups - 1))

\* One iteration of TOP_LOOP in tdf12.
Tdf12Iteration ==
    /\ variant = "plain"
    /\ tdf6_get_next_ijk
    /\ \E prods \in [Channels -> LaneProducts(128)], dirty \in DirtyCalls :
          /\ products' = prods
          /\ accum1_out' = [n \in Channels |->
                 tdf12_accum_1_out(
                     tdf12_accum_1_psum(products'[n], PsumLeft(32, dirty = <<1, n>>)))]
          /\ psum' = [n \in Channels |->
                 tdf12_accum_2_psum(accum1_out'[n], PsumLeft(8, dirty = <<2, n>>))]
    /\ accum2_out' = [n \in Channels |-> tdf12_accum_2_out(psum'[n])]
    /\ accum3_out' = [n \in Channels |-> tdf12_accum_3(accum2_out'[n])]
    /\ sums' = [n \in Channels |-> tdf12_accum_4(accum3_out'[n])]
    /\ outputs' = tdf12_adjust(sums', indices'[3])
    /\ written' = tdf12_writeOutputs(indices'[1], indices'[2], indices'[3], outputs')
    /\ f' = IF f = PlainIterations THEN 1 ELSE f + 1
    /\ LET base == IF f = PlainIterations THEN [c \in PlainOutCoords |-> 0] ELSE nwrites
       IN nwrites' = [base EXCEPT ![<<written'.i, written'.j, written'.k>>] = @ + 1]
    /\ UNCHANGED <<variant, pooledVars, fusedVars, write, pooledOut, calls, trace, stage, sum,
                   max_vals, seen, nwin, l2Vars, ifmap_vec, weight_vecs, config, stepVars, l2StageVars, pairVars, walk, tree_chain>>

\* The statics and locals of a plain layer before the first run.
InitPlainDriver ==
    /\ variant = "plain"
    /\ InitPlainStatics
    /\ InitPooledStatics
    /\ InitFusedStatics
    /\ InitOutParams
    /\ InitSteps
    /\ InitBuild
    /\ calls = 0
    /\ trace = <<>>
    /\ InitAccIdle
    /\ InitPool
    /\ f = 0
    /\ nwrites = [c \in PlainOutCoords |-> 0]
    /\ InitL2Idle
    /\ InitLaneIdle
    /\ InitL2StageIdle
    /\ InitPair
    /\ InitChainIdle
    /\ InitWalkIdle

NextTdf12 == Tdf12Iteration

SpecTdf12 == InitPlainDriver /\ [][NextTdf12]_vars

\* C14: every iteration of a plain layer writes the adjusted values of that iteration at
\* the coordinate (i,j,k) the generator returned in the same iteration; what is written
\* is determined by the products of the iteration alone, whatever earlier calls left
\* behind; in a run of H*W*ChannelGroups iterations every coordinate is written once.
C14_PassThrough ==
    (f > 0) =>
        /\ <<written.i, written.j, written.k>> = indices
        /\ written.vals = outputs
        /\ \A o \in Channels :
              written.vals[o] =
                  tdf12_adjust([n \in Channels |-> SumRange(products[n], 0, 127)],
                               indices[3])[o]
        /\ \A c \in PlainOutCoords : nwrites[c] <= 1
        /\ (f = PlainIterations) => \A c \in PlainOutCoords : nwrites[c] = 1

(***************************************************************************)
(* Plain driver of tdf9: readInputs, readFilters, dot_product, the three   *)
(* accumulation stages of every lane (two tree stages and a simple one),   *)
(* adjust and writeOutputs.  VECTOR_SIZE is 256.                           *)
(***************************************************************************)
\* Input windows, flattened: 1, 2, ..., 256; all ones; only the last element set.
Tdf9Windows ==
    {[n \in 0..255 |-> n + 1], [n \in 0..255 |-> 1], [n \in 0..255 |-> IF n = 255 THEN 1 ELSE 0]}

\* Filters, flattened: all ones; alternating 1, -1.
Tdf9Filters ==
    {[n \in 0..255 |-> 1], [n \in 0..255 |-> IF n % 2 = 0 THEN 1 ELSE 0 - 1]}

\* tdf9_dot_product(ifmap_vec, weight_vecs, products): the element-wise products of the
\* window with the filter of every lane.
tdf9_dot_product(window, filters) ==
    [o \in Channels |-> [n \in 0..255 |-> window[n] * filters[o][n]]]

\* Mutant: the last two outputs of a word both take the sum of its first eight values.
tdf9_accum_1_dup(accum_in) ==
    [q \in 0..31 |->
        LET i1 == q \div 4
            i == UINT16(i1 * 32)
            vals == [w \in 0..31 |-> IF i + w < 256 THEN accum_in[i + w] ELSE 0]
            sumA == [t \in 0..15 |-> vals[31 - 2 * t] + vals[30 - 2 * t]]
            sumB == [u \in 0..7 |-> sumA[2 * u] + sumA[2 * u + 1]]
            sumC == [v \in 0..3 |-> sumB[2 * v] + sumB[2 * v + 1]]
        IN IF q % 4 = 3 THEN sumC[1] ELSE sumC[3 - (q % 4)]]

\* tdf9_accum_1: 256 inputs to 32 outputs, words of 32.  sumA is sum0..sum15, sumB is
\* sum16..sum23, sumC is sum24..sum27; accum_out[out_idx+r] = sum(27-r).
tdf9_accum_1(accum_in) ==
    [q \in 0..31 |->
        LET i1 == q \div 4
            i == UINT16(i1 * 32)
            vals == [w \in 0..31 |-> IF i + w < 256 THEN accum_in[i + w] ELSE 0]
            sumA == [t \in 0..15 |-> vals[31 - 2 * t] + vals[30 - 2 * t]]
            sumB == [u \in 0..7 |-> sumA[2 * u] + sumA[2 * u + 1]]
            sumC == [v \in 0..3 |-> sumB[2 * v] + sumB[2 * v + 1]]
        IN sumC[3 - (q % 4)]]

\* tdf9_accum_2: 32 inputs to 4 outputs, words of 8.
tdf9_accum_2(accum_in) ==
    [i1 \in 0..3 |->
        LET i == UINT16(i1 * 8)
            vals == [w \in 0..7 |-> IF i + w < 32 THEN accum_in[i + w] ELSE 0]
            sum0 == vals[7] + vals[6]
            sum1 == vals[5] + vals[4]
            sum2 == vals[3] + vals[2]
            sum3 == vals[1] + vals[0]
            sum4 == sum0 + sum1
            sum5 == sum2 + sum3
            sum6 == sum4 + sum5
        IN sum6]

\* tdf9_accum_3: data_t sum = 0.0; four additions.
tdf9_accum_3(accum_in) == SimpleAccum(accum_in, 0, 0)

\* tdf9_adjust(sums, outputs, adjustments, k_int): as in tdf12.
tdf9_adjust(lane_sums, k) == tdf12_adjust(lane_sums, k)

\* One iteration of TOP_LOOP in tdf9.
Tdf9Iteration ==
    /\ variant = "plain"
    /\ tdf6_get_next_ijk
    /\ \E window \in Tdf9Windows, filters \in [Channels -> Tdf9Filters] :
          /\ ifmap_vec' = window
          /\ weight_vecs' = filters
    /\ products' = tdf9_dot_product(ifmap_vec', weight_vecs')
    /\ accum1_out' = [n \in Channels |-> tdf9_accum_1(products'[n])]
    /\ accum2_out' = [n \in Channels |-> tdf9_accum_2(accum1_out'[n])]
    /\ sums' = [n \in Channels |-> tdf9_accum_3(accum2_out'[n])]
    /\ outputs' = tdf9_adjust(sums', indices'[3])
    /\ written' = tdf12_writeOutputs(indices'[1], indices'[2], indices'[3], outputs')
    /\ f' = IF f = PlainIterations THEN 1 ELSE f + 1
    /\ LET base == IF f = PlainIterations THEN [c \in PlainOutCoords |-> 0] ELSE nwrites
       IN nwrites' = [base EXCEPT ![<<written'.i, written'.j, written'.k>>] = @ + 1]
    /\ UNCHANGED <<variant, pooledVars, fusedVars, write, pooledOut, calls, trace, stage, sum,
                   accum3_out, psum, max_vals, seen, nwin, l2Vars, config, stepVars, l2StageVars, pairVars, walk, tree_chain>>

NextTdf9 == Tdf9Iteration

SpecTdf9 == InitPlainDriver /\ [][NextTdf9]_vars

\* C15: for every output coordinate of tdf9, the value written for an output channel is
\* adjust applied to the exact sum over the 256 filter elements of window[n]*weight[n]
\* of that channel; the stages between dot_product and adjust drop, duplicate and add
\* no term (all weights 1 and window 1..256 give the raw sum 32896).
C15_PlainEndToEnd ==
    (f > 0) =>
        /\ <<written.i, written.j, written.k>> = indices
        /\ \A o \in Channels :
              LET raw == SumRange([n \in 0..255 |-> ifmap_vec[n] * weight_vecs[o][n]], 0, 255)
              IN /\ sums[o] = raw
                 /\ written.vals[o] = tdf9_adjust([n \in Channels |-> raw], indices[3])[o]
        /\ (\A n \in 0..255 : ifmap_vec[n] = n + 1 /\ weight_vecs[0][n] = 1) =>
              written.vals[0].adjusted = 32896

C15_Witness ==
    /\ f = PlainIterations
    /\ \A n \in 0..255 : ifmap_vec[n] = n + 1 /\ weight_vecs[0][n] = 1
    /\ written.vals[0].adjusted = 32896
    /\ \E o \in Channels : written.vals[o].adjusted = 0 - 128

(***************************************************************************)
(* A plain layer (tdf6) built with other constants: the headers fix        *)
(* OUTPUT_CHANS and OCHAN_SCALE_FACTOR, the code divides one by the other. *)
(***************************************************************************)
\* Builds of the layer: the channel count is or is not a multiple of the group width.
Builds ==
    {[OUTPUT_CHANS |-> c, OCHAN_SCALE_FACTOR |-> OCHAN_SCALE_FACTOR] :
        c \in OUTPUT_CHANS..(OUTPUT_CHANS + OCHAN_SCALE_FACTOR - 1)}

\* The channel count of the build is not a multiple of the group width.
Inconsistent(cfg) == cfg.OUTPUT_CHANS % cfg.OCHAN_SCALE_FACTOR # 0

\* OUTPUT_CHANS / OCHAN_SCALE_FACTOR of a build (C integer division).
BuildGroups(cfg) == cfg.OUTPUT_CHANS \div cfg.OCHAN_SCALE_FACTOR

\* TOP_LOOP_ITERATIONS of a build: the trip count of the loop nest L1/L2/L3.
BuildIterations(cfg) == OUTPUT_HEIGHT * OUTPUT_WIDTH * BuildGroups(cfg)

\* The statics after the increments of one call of tdf6_get_next_ijk in a build.
tdf6_advance_built(i, j, k, cfg) ==
    LET k1 == UINT16(k + 1) IN
    IF k1 = BuildGroups(cfg)
    THEN LET j1 == UINT16(j + 1) IN
         IF j1 = OUTPUT_WIDTH
         THEN LET i1 == UINT16(i + 1) IN
              IF i1 = OUTPUT_HEIGHT
              THEN [i |-> 0, j |-> 0, k |-> 0]
              ELSE [i |-> i1, j |-> 0, k |-> 0]
         ELSE [i |-> i, j |-> j1, k |-> 0]
    ELSE [i |-> i, j |-> j, k |-> k1]

\* One iteration of TOP_LOOP in tdf6 as built: the first statement of tdf6() is the loop.
\* The stages between the generator and tdf6_adjust deliver some outputs[].
BuiltIteration ==
    /\ variant = "plain"
    /\ BuildIterations(config) > 0
    /\ indices' = <<tdf6_i, tdf6_j, tdf6_k>>
    /\ LET n == tdf6_advance_built(tdf6_i, tdf6_j, tdf6_k, config) IN
         /\ tdf6_i' = n.i
         /\ tdf6_j' = n.j
         /\ tdf6_k' = n.k
    /\ \E outs \in [0..(config.OCHAN_SCALE_FACTOR - 1) -> PoolVals] :
          /\ outputs' = outs
          /\ written' = tdf12_writeOutputs(indices'[1], indices'[2], indices'[3], outs)
    /\ f' = IF f = BuildIterations(config) THEN 1 ELSE f + 1
    /\ UNCHANGED <<variant, pooledVars, fusedVars, write, pooledOut, calls, trace, accVars,
                   max_vals, seen, nwin, nwrites, l2Vars, laneVars, stepVars, config, l2StageVars, pairVars, walk, tree_chain>>

InitBuilt ==
    /\ variant = "plain"
    /\ config \in Builds
    /\ InitPlainStatics
    /\ InitPooledStatics
    /\ InitFusedStatics
    /\ InitOutParams
    /\ InitSteps
    /\ calls = 0
    /\ trace = <<>>
    /\ InitAccIdle
    /\ InitPool
    /\ InitDriverIdle
    /\ InitL2Idle
    /\ InitLaneIdle
    /\ InitL2StageIdle
    /\ InitPair
    /\ InitChainIdle
    /\ InitWalkIdle

NextBuilt == BuiltIteration

SpecBuilt == InitBuilt /\ [][NextBuilt]_vars

\* C16: when the channel count of the build is not a multiple of the group width, the
\* mismatch is detected before the pipeline runs: no iteration of the top loop is
\* executed and the output store is not written.
C16_ConfigFailFast ==
    Inconsistent(config) => (f = 0 /\ written = <<>>)

(***************************************************************************)
(* Reference orders: the loop nests the generators stand for.              *)
(***************************************************************************)
RECURSIVE Flatten(_)
\* Concatenation of a sequence of sequences.
Flatten(ss) == IF ss = <<>> THEN <<>> ELSE Head(ss) \o Flatten(Tail(ss))

Min(a, b) == IF a < b THEN a ELSE b

\* The loop nest L1/L2/L3 of the comment in tdf6(): i outermost, then j, then k.
PlainLoopNest ==
    Flatten([i1 \in 1..OUTPUT_HEIGHT |->
        Flatten([j1 \in 1..OUTPUT_WIDTH |->
            [k1 \in 1..ChannelGroups |-> <<i1 - 1, j1 - 1, k1 - 1>>]])])

PlainDomain == (0..(OUTPUT_HEIGHT - 1)) \X (0..(OUTPUT_WIDTH - 1)) \X (0..(ChannelGroups - 1))

\* Five nested loops: output row, output column, channel group, window row, window column.
\* Each entry is <<i, j, k, i_out, j_out, i_p, j_p>>.
PooledLoopNest ==
    Flatten([io \in 1..OUTPUT_HEIGHT |->
        Flatten([jo \in 1..OUTPUT_WIDTH |->
            Flatten([k1 \in 1..ChannelGroups |->
                Flatten([ip \in 1..POOLING_FACTOR |->
                    [jp \in 1..POOLING_FACTOR |->
                        <<POOLING_FACTOR * (io - 1), POOLING_FACTOR * (jo - 1), k1 - 1,
                          io - 1, jo - 1, ip - 1, jp - 1>>]])])])])

PooledDomain ==
    (0..(OUTPUT_HEIGHT - 1)) \X (0..(OUTPUT_WIDTH - 1)) \X (0..(ChannelGroups - 1))
        \X (0..(POOLING_FACTOR - 1)) \X (0..(POOLING_FACTOR - 1))

\* The loop nest of a fused layer: i outermost, then j, then the L1 channel slice k.
FusedLoopNest ==
    Flatten([i1 \in 1..OUTPUT_HEIGHT |->
        Flatten([j1 \in 1..OUTPUT_WIDTH |->
            [k1 \in 1..FusionSteps |-> <<i1 - 1, j1 - 1, k1 - 1>>]])])

FusedDomain == (0..(OUTPUT_HEIGHT - 1)) \X (0..(OUTPUT_WIDTH - 1)) \X (0..(FusionSteps - 1))

(***************************************************************************)
(* Claims about the index generators (checked under SpecGen).              *)
(***************************************************************************)
\* C1: from the initial state, the first PlainIterations calls of the plain generator
\* return the tuples of [0,H)x[0,W)x[0,ChannelGroups) in the order of the three nested
\* loops i, j, k, each exactly once; a call returns the tuple the statics held at entry.
C1_PlainNestedLoopOrder ==
    variant = "plain" =>
        /\ \A n \in 1..Min(calls, PlainIterations) :
              /\ trace[n].ret[1] = PlainLoopNest[n]
              /\ trace[n].ret[1] = trace[n].st
        /\ calls >= PlainIterations =>
              \A t \in PlainDomain :
                  Cardinality({n \in 1..PlainIterations : trace[n].ret[1] = t}) = 1

C1_Witness == variant = "plain" /\ calls = PlainIterations

\* C2: from the initial state, the first PooledIterations calls of the pooled generator
\* visit the combinations (i_out, j_out, k, i_p, j_p) in the order of five nested loops
\* with j_p innermost, then i_p, k, the column (j, j_out) and the row (i, i_out), each
\* combination exactly once.
C2_PooledNestedLoopOrder ==
    variant = "pooled" =>
        /\ \A n \in 1..Min(calls, PooledIterations) : trace[n].st = PooledLoopNest[n]
        /\ calls >= PooledIterations =>
              \A t \in PooledDomain :
                  Cardinality({n \in 1..PooledIterations :
                      <<trace[n].st[4], trace[n].st[5], trace[n].st[3],
                        trace[n].st[6], trace[n].st[7]>> = t}) = 1

C2_Witness == variant = "pooled" /\ calls = PooledIterations

\* C3: from the initial state, the first FusedIterations calls of the fused generator
\* return the tuples of [0,H)x[0,W)x[0,FusionSteps) with k fastest, then j, then i,
\* each exactly once.
C3_FusedNestedLoopOrder ==
    variant = "fused" =>
        /\ \A n \in 1..Min(calls, FusedIterations) : trace[n].ret[1] = FusedLoopNest[n]
        /\ calls >= FusedIterations =>
              \A t \in FusedDomain :
                  Cardinality({n \in 1..FusedIterations : trace[n].ret[1] = t}) = 1

C3_Witness == variant = "fused" /\ calls = FusedIterations

\* C4: every call of the pooled generator returns resetMaximum iff i_p = 0 and j_p = 0
\* and storeOutput iff i_p = P-1 and j_p = P-1, on the counters at entry; so in every
\* block of P*P consecutive calls resetMaximum is true on the first call only and
\* storeOutput on the last call only.
C4_PooledFlags ==
    variant = "pooled" =>
        \A n \in 1..calls :
            LET e == trace[n]
                W == POOLING_FACTOR * POOLING_FACTOR
            IN /\ e.ret[3] = (e.st[6] = 0 /\ e.st[7] = 0)
               /\ e.ret[4] = (e.st[6] = POOLING_FACTOR - 1 /\ e.st[7] = POOLING_FACTOR - 1)
               /\ e.ret[3] = ((n - 1) % W = 0)
               /\ e.ret[4] = (n % W = 0)

C4_Witness ==
    /\ variant = "pooled"
    /\ calls = 2 * POOLING_FACTOR * POOLING_FACTOR
    /\ storeOutput
    /\ ~resetMaximum

\* C5: every call of the fused generator returns write iff the returned k is
\* FusionSteps-1; for each position (i,j) the flag is false on the first FusionSteps-1
\* calls and true on the last, and it is true OUTPUT_HEIGHT*OUTPUT_WIDTH times in a pass.
C5_FusedWriteFlag ==
    variant = "fused" =>
        /\ \A n \in 1..calls :
              LET e == trace[n] IN
              /\ e.ret[2] = (e.ret[1][3] = FusionSteps - 1)
              /\ e.ret[2] = (n % FusionSteps = 0)
              /\ LET first == n - ((n - 1) % FusionSteps) IN
                    /\ trace[first].ret[1][1] = e.ret[1][1]
                    /\ trace[first].ret[1][2] = e.ret[1][2]
        /\ calls >= FusedIterations =>
              Cardinality({n \in 1..FusedIterations : trace[n].ret[2]})
                  = OUTPUT_HEIGHT * OUTPUT_WIDTH

C5_Witness == variant = "fused" /\ calls = FusedIterations /\ write

\* The statics of the generator under observation, and its iteration count.
Statics ==
    CASE variant = "plain" -> <<tdf6_i, tdf6_j, tdf6_k>>
      [] variant = "pooled" ->
            <<tdf2_i, tdf2_j, tdf2_k, tdf2_i_out, tdf2_j_out, tdf2_i_p, tdf2_j_p>>
      [] variant = "fused" -> <<tdf4_i, tdf4_j, tdf4_k>>

TotalIterations ==
    CASE variant = "plain" -> PlainIterations
      [] variant = "pooled" -> PooledIterations
      [] variant = "fused" -> FusedIterations

\* C6: for each of the three generators, after exactly TotalIterations calls every
\* static counter is 0 again, after fewer (but at least one) calls the statics are not
\* all 0, and the calls of the next pass return what the calls of the first pass returned.
C6_IdempotentRestart ==
    /\ (calls % TotalIterations = 0) => \A x \in 1..Len(Statics) : Statics[x] = 0
    /\ (calls % TotalIterations # 0) => \E x \in 1..Len(Statics) : Statics[x] # 0
    /\ \A n \in (TotalIterations + 1)..calls : trace[n].ret = trace[n - TotalIterations].ret

C6_Witness == variant = "pooled" /\ calls = 2 * PooledIterations

\* Four nested loops with the channel group innermost: output row, output column,
\* window row, window column, channel group.  Each entry is <<i_out, j_out, i_p, j_p, k>>.
PooledKInnermostNest ==
    Flatten([io \in 1..OUTPUT_HEIGHT |->
        Flatten([jo \in 1..OUTPUT_WIDTH |->
            Flatten([ip \in 1..POOLING_FACTOR |->
                Flatten([jp \in 1..POOLING_FACTOR |->
                    [k1 \in 1..ChannelGroups |->
                        <<io - 1, jo - 1, ip - 1, jp - 1, k1 - 1>>]])])])])

\* C17 as stated: in the pooled generator the counters nest, from outermost to innermost,
\* as row, column, pooling sub-position, channel group: k is the fastest-varying counter
\* and (i_p, j_p) advances only after all channel groups were visited for it.
C17_PooledKFastest ==
    variant = "pooled" =>
        /\ \A n \in 1..Min(calls, PooledIterations) :
              <<trace[n].st[4], trace[n].st[5], trace[n].st[6], trace[n].st[7], trace[n].st[3]>>
                  = PooledKInnermostNest[n]
        /\ \A n \in 1..(calls - 1) :
              <<trace[n + 1].st[6], trace[n + 1].st[7]>> # <<trace[n].st[6], trace[n].st[7]>>
                  => trace[n].st[3] = ChannelGroups - 1

\* C17 amended: in the pooled generator the pooling sub-position is the fastest-varying
\* counter: j_p advances on every call, i_p when j_p wraps, the channel group k only when
\* the window (i_p, j_p) wraps, and the output position only when k wraps.
C17_PooledSubPositionFastest ==
    variant = "pooled" =>
        \A n \in 1..(calls - 1) :
            LET a == trace[n].st
                b == trace[n + 1].st
                jwrap == (a[7] = POOLING_FACTOR - 1)
                iwrap == jwrap /\ (a[6] = POOLING_FACTOR - 1)
                kwrap == iwrap /\ (a[3] = ChannelGroups - 1)
            IN /\ b[7] = (a[7] + 1) % POOLING_FACTOR
               /\ b[6] = IF jwrap THEN (a[6] + 1) % POOLING_FACTOR ELSE a[6]
               /\ b[3] = IF iwrap THEN (a[3] + 1) % ChannelGroups ELSE a[3]
               /\ (<<b[4], b[5]>> # <<a[4], a[5]>>) <=> kwrap

C17_Witness ==
    /\ variant = "pooled"
    /\ calls = POOLING_FACTOR * POOLING_FACTOR * ChannelGroups + 1
    /\ trace[calls].st[3] = 0
    /\ trace[calls - 1].st[3] = ChannelGroups - 1
    /\ trace[calls].st[5] = 1

\* The calls from the last call that returned resetMaximum up to call n.
WindowStart(n) ==
    CHOOSE m \in 1..n : trace[m].ret[3] /\ \A x \in (m + 1)..n : ~trace[x].ret[3]

\* C19: in the pooled generator, from a call that returns resetMaximum to the next call
\* that returns storeOutput (both included) there are exactly P*P calls; all of them
\* return the same k and the same (i_out, j_out), and their sub-positions come in
\* row-major order, (0,0), (0,1), ..., (P-1,P-1); no call of another channel group or
\* output position falls inside a window.
C19_PoolingWindowContiguity ==
    variant = "pooled" =>
        \A n \in 1..calls :
            LET m == WindowStart(n)
                first == trace[m]
                e == trace[n]
                d == n - m
                base == <<first.ret[1][1], first.ret[1][2]>>
            IN /\ trace[1].ret[3]
               /\ d < POOLING_FACTOR * POOLING_FACTOR
               /\ e.ret[4] <=> (d = POOLING_FACTOR * POOLING_FACTOR - 1)
               /\ e.ret[1][3] = first.ret[1][3]
               /\ e.ret[2] = first.ret[2]
               /\ <<e.ret[1][1] - base[1], e.ret[1][2] - base[2]>>
                      = <<d \div POOLING_FACTOR, d % POOLING_FACTOR>>
               /\ \A x \in (m + 1)..n : ~trace[x - 1].ret[4]

C19_Witness ==
    /\ variant = "pooled"
    /\ calls = 2 * POOLING_FACTOR * POOLING_FACTOR
    /\ storeOutput
    /\ input_indices = <<POOLING_FACTOR - 1, POOLING_FACTOR - 1, 1>>

\* The start of the order the comment above tdf2_get_next_ijk gives for 2x2 pooling.
DocumentedOrder == <<<<0, 0>>, <<0, 1>>, <<1, 0>>, <<1, 1>>, <<0, 2>>>>

Call(name, lane, reads, writes) ==
    [name |-> name, lane |-> lane, reads |-> reads, writes |-> writes]

\* Locals shared by all lanes, and the per-lane slices of a local.
Shared(names) == {<<b, 0>> : b \in names}

PerLane(name) == {<<name, n>> : n \in Channels}

\* One call of a reduction stage per lane, lane 0 first.
LaneCalls(name, src, dst) ==
    [m \in 1..OCHAN_SCALE_FACTOR |-> Call(name, m - 1, {<<src, m - 1>>}, {<<dst, m - 1>>})]

\* Mutant: the maxima are pooled before the sums are adjusted.
tdf1_TOP_LOOP_poolfirst ==
    <<Call("get_next_ijk", 0, {}, Shared({"indices", "flags"})),
      Call("readInputs", 0, Shared({"indices"}), Shared({"ifmap_vec"})),
      Call("readFilters", 0, Shared({"indices"}), Shared({"weight_vecs"})),
      Call("dot_product", 0, Shared({"ifmap_vec", "weight_vecs"}), PerLane("products"))>>
    \o LaneCalls("accum_1", "products", "accum1_out")
    \o LaneCalls("accum_2", "accum1_out", "accum2_out")
    \o LaneCalls("accum_3", "accum2_out", "accum3_out")
    \o LaneCalls("accum_4", "accum3_out", "sums")
    \o <<Call("poolOutputs", 0, Shared({"outputs", "indices", "flags"}), Shared({"out_data"})),
         Call("adjust", 0, PerLane("sums") \cup Shared({"indices"}), Shared({"outputs"}))>>

\* The calls of one iteration of tdf1's TOP_LOOP, in program order.
tdf1_TOP_LOOP ==
    <<Call("get_next_ijk", 0, {}, Shared({"indices", "flags"})),
      Call("readInputs", 0, Shared({"indices"}), Shared({"ifmap_vec"})),
      Call("readFilters", 0, Shared({"indices"}), Shared({"weight_vecs"})),
      Call("dot_product", 0, Shared({"ifmap_vec", "weight_vecs"}), PerLane("products"))>>
    \o LaneCalls("accum_1", "products", "accum1_out")
    \o LaneCalls("accum_2", "accum1_out", "accum2_out")
    \o LaneCalls("accum_3", "accum2_out", "accum3_out")
    \o LaneCalls("accum_4", "accum3_out", "sums")
    \o <<Call("adjust", 0, PerLane("sums") \cup Shared({"indices"}), Shared({"outputs"})),
         Call("poolOutputs", 0, Shared({"outputs", "indices", "flags"}), Shared({"out_data"}))>>

\* The calls of one iteration of tdf4's TOP_LOOP, in program order (the
\* branch of "#if 8 > 1" that is compiled).
tdf4_TOP_LOOP ==
    <<Call("get_next_ijk", 0, {}, Shared({"indices", "flags"})),
      Call("readInputs", 0, Shared({"indices"}), Shared({"ifmap_vec"})),
      Call("readFilters", 0, Shared({"indices"}), Shared({"weight_vecs"})),
      Call("dot_product", 0, Shared({"ifmap_vec", "weight_vecs"}), PerLane("products"))>>
    \o LaneCalls("accum_1", "products", "accum1_out")
    \o LaneCalls("accum_2", "accum1_out", "sums")
    \o <<Call("adjust", 0, PerLane("sums") \cup Shared({"indices"}),
              Shared({"intermediate_fmaps"})),
         Call("l2_multiply", 0, Shared({"intermediate_fmaps", "indices"}),
              Shared({"l2_products"})),
         Call("l2_accum", 0, Shared({"l2_products"}), Shared({"l2_partial_sums"})),
         Call("l2_writeOutputs", 0, Shared({"l2_partial_sums", "indices", "flags"}),
              Shared({"out_data"}))>>

\* The calls of one iteration of tdf9's TOP_LOOP, in program order.
tdf9_TOP_LOOP ==
    <<Call("get_next_ijk", 0, {}, Shared({"indices"})),
      Call("readInputs", 0, Shared({"indices"}), Shared({"ifmap_vec"})),
      Call("readFilters", 0, Shared({"indices"}), Shared({"weight_vecs"})),
      Call("dot_product", 0, Shared({"ifmap_vec", "weight_vecs"}), PerLane("products"))>>
    \o LaneCalls("accum_1", "products", "accum1_out")
    \o LaneCalls("accum_2", "accum1_out", "accum2_out")
    \o LaneCalls("accum_3", "accum2_out", "sums")
    \o <<Call("adjust", 0, PerLane("sums") \cup Shared({"indices"}), Shared({"outputs"})),
         Call("writeOutputs", 0, Shared({"outputs", "indices"}), Shared({"out_data"}))>>

TOP_LOOP ==
    CASE variant = "pooled" -> tdf1_TOP_LOOP
      [] variant = "fused"  -> tdf4_TOP_LOOP
      [] variant = "plain"  -> tdf9_TOP_LOOP

\* Lengths of the products vector of a lane.
tdf1_VECTOR_SIZE == 27

tdf4_VECTOR_SIZE == 144

tdf9_VECTOR_SIZE == 256

VECTOR_SIZE ==
    CASE variant = "pooled" -> tdf1_VECTOR_SIZE
      [] variant = "fused"  -> tdf4_VECTOR_SIZE
      [] variant = "plain"  -> tdf9_VECTOR_SIZE

\* tdf4_accum_1: tree stage, 144 inputs to 5 outputs, words of 32 padded
\* with zeros, one output (sum30) per word.
tdf4_accum_1(accum_in) ==
    [i1 \in 0..4 |->
        LET i == UINT16(i1 * 32)
            vals == [w \in 0..31 |-> IF i + w < 144 THEN accum_in[i + w] ELSE 0]
            sumA == [t \in 0..15 |-> vals[31 - 2 * t] + vals[30 - 2 * t]]
            sumB == [u \in 0..7 |-> sumA[2 * u] + sumA[2 * u + 1]]
            sumC == [v \in 0..3 |-> sumB[2 * v] + sumB[2 * v + 1]]
            sum28 == sumC[0] + sumC[1]
            sum29 == sumC[2] + sumC[3]
            sum30 == sum28 + sum29
        IN sum30]

RECURSIVE tdf4_accum_2_loop(_, _, _)
\* for (int i = from; i < 5; i++) sum += accum_in[i], from the value of sum so far.
tdf4_accum_2_loop(accum_in, i, acc) ==
    IF i < 5 THEN tdf4_accum_2_loop(accum_in, i + 1, acc + accum_in[i]) ELSE acc

\* tdf4_accum_2: simple stage, data_t sum = 0.0 and then the loop.
tdf4_accum_2(accum_in) == tdf4_accum_2_loop(accum_in, 0, 0)

\* The products the external dot_product delivers for the window and the
\* filters read at the indices of this iteration: some vector per lane that
\* depends on the position and on the lane.
StageProducts(idx, len) ==
    [n \in Channels |-> [m \in 0..(len - 1) |-> (idx[1] + idx[2] + idx[3] + n + m) % 3]]

\* What a call reads from a per-lane local.  A local that was not assigned
\* in this iteration holds an indeterminate value: the read is recorded in
\* stale and the model continues with zeros.
LaneValue(buf, n) ==
    LET var == CASE buf = "products"   -> products
                 [] buf = "accum1_out" -> accum1_out
                 [] buf = "accum2_out" -> accum2_out
                 [] buf = "accum3_out" -> accum3_out
    IN IF <<buf, n>> \in valid /\ n \in DOMAIN var
       THEN var[n]
       ELSE [m \in 0..(tdf9_VECTOR_SIZE - 1) |-> 0]

\* The reduction stage of the given name in the driver being run.
StageResult(name, accum_in) ==
    CASE variant = "pooled" /\ name = "accum_1" -> tdf1_accum_1(accum_in)
      [] variant = "pooled" /\ name = "accum_2" -> tdf1_accum_2(accum_in)
      [] variant = "pooled" /\ name = "accum_3" -> tdf1_accum_3(accum_in)
      [] variant = "pooled" /\ name = "accum_4" -> tdf1_accum_4(accum_in)
      [] variant = "fused" /\ name = "accum_1"  -> tdf4_accum_1(accum_in)
      [] variant = "fused" /\ name = "accum_2"  -> tdf4_accum_2(accum_in)
      [] variant = "plain" /\ name = "accum_1"  -> tdf9_accum_1(accum_in)
      [] variant = "plain" /\ name = "accum_2"  -> tdf9_accum_2(accum_in)
      [] variant = "plain" /\ name = "accum_3"  -> tdf9_accum_3(accum_in)

\* Book-keeping common to every statement: the call is logged, its locals
\* become assigned, and the loop moves to the next statement or iteration.
Advance(c) ==
    LET assigned == IF pc = 1 THEN {} ELSE valid
        entry == [name |-> c.name, lane |-> c.lane]
        last == pc = Len(TOP_LOOP)
        total == CASE variant = "pooled" -> PooledIterations
                   [] variant = "fused"  -> FusedIterations
                   [] variant = "plain"  -> PlainIterations
    IN /\ log' = IF pc = 1 THEN <<entry>> ELSE Append(log, entry)
       /\ valid' = assigned \cup c.writes
       /\ stale' = (stale \/ ~(c.reads \subseteq assigned))
       /\ pc' = IF last THEN 1 ELSE pc + 1
       /\ f' = IF last THEN (IF f = total THEN 1 ELSE f + 1) ELSE f

\* tdfN_get_next_ijk(...): the call of the index generator.
GeneratorStep ==
    /\ TOP_LOOP[pc].name = "get_next_ijk"
    /\ \/ /\ variant = "pooled"
          /\ tdf2_get_next_ijk
          /\ UNCHANGED <<plainVars, fusedVars, indices, write>>
       \/ /\ variant = "fused"
          /\ tdf4_get_next_ijk
          /\ UNCHANGED <<plainVars, pooledVars, pooledOut>>
       \/ /\ variant = "plain"
          /\ tdf6_get_next_ijk
          /\ UNCHANGED <<pooledVars, fusedVars, pooledOut, write>>
    /\ Advance(TOP_LOOP[pc])
    /\ UNCHANGED <<variant, calls, trace, accVars, poolVars, nwrites, l2Vars,
                   laneVars, config, l2StageVars, pairVars, walk, tree_chain>>

\* readInputs, readFilters, dot_product and adjust: functions outside the
\* repository.  dot_product delivers the products of every lane; adjust
\* delivers the outputs the pooled aggregator compares or the plain driver
\* stores.
ExternStep ==
    /\ TOP_LOOP[pc].name \in {"readInputs", "readFilters", "dot_product", "adjust"}
    /\ IF TOP_LOOP[pc].name = "dot_product"
       THEN products' = StageProducts(IF variant = "pooled" THEN input_indices ELSE indices,
                                      VECTOR_SIZE)
       ELSE UNCHANGED products
    /\ CASE TOP_LOOP[pc].name = "adjust" /\ variant = "pooled" ->
                \E v \in PoolVals : outputs' = [o \in Channels |-> v]
         [] TOP_LOOP[pc].name = "adjust" /\ variant = "plain" ->
                outputs' = tdf9_adjust(sums, indices[3])
         [] OTHER -> UNCHANGED outputs
    /\ Advance(TOP_LOOP[pc])
    /\ UNCHANGED <<genVars, stage, accum1_out, accum2_out, accum3_out, sum, psum,
                   max_vals, written, seen, nwin, nwrites, l2Vars, laneVars, config, l2StageVars, pairVars, walk, tree_chain>>

\* tdfN_accum_s(...) for one lane: the stage reads the local the previous
\* stage of the lane assigned and assigns its own.
ReductionStep ==
    /\ TOP_LOOP[pc].name \in {"accum_1", "accum_2", "accum_3", "accum_4"}
    /\ LET c == TOP_LOOP[pc]
           n == c.lane
           src == CHOOSE b \in c.reads : TRUE
           dst == (CHOOSE b \in c.writes : TRUE)[1]
           out == StageResult(c.name, LaneValue(src[1], n))
       IN /\ accum1_out' = IF dst = "accum1_out" THEN (n :> out) @@ accum1_out ELSE accum1_out
          /\ accum2_out' = IF dst = "accum2_out" THEN (n :> out) @@ accum2_out ELSE accum2_out
          /\ accum3_out' = IF dst = "accum3_out" THEN (n :> out) @@ accum3_out ELSE accum3_out
          /\ sums' = IF dst = "sums" THEN (n :> out) @@ sums ELSE sums
    /\ Advance(TOP_LOOP[pc])
    /\ UNCHANGED <<genVars, stage, products, sum, psum, poolVars, nwrites, l2Vars,
                   ifmap_vec, weight_vecs, config, l2StageVars, pairVars, walk, tree_chain>>

\* tdf4_l2_multiply and tdf4_l2_accum: the second layer's products and their
\* sums over the lanes.  Their values are not followed here: l2_accum leaves
\* some vector of partial sums, the same value for every output channel.
L2Step ==
    /\ TOP_LOOP[pc].name \in {"l2_multiply", "l2_accum"}
    /\ IF TOP_LOOP[pc].name = "l2_accum"
       THEN \E v \in 0..MaxPartial : l2_partial_sums' = [o \in L2Channels |-> v]
       ELSE UNCHANGED l2_partial_sums
    /\ Advance(TOP_LOOP[pc])
    /\ UNCHANGED <<genVars, accVars, poolVars, nwrites, running_sums, l2_written, received,
                   laneVars, config, l2StageVars, pairVars, walk, tree_chain>>

\* tdf1_poolOutputs / tdf4_l2_writeOutputs / tdf9_writeOutputs_unaligned: the
\* call that stores to out_data.
AggregatorStep ==
    /\ TOP_LOOP[pc].name \in {"poolOutputs", "l2_writeOutputs", "writeOutputs"}
    /\ \/ /\ variant = "pooled"
          /\ tdf2_poolOutputs(output_indices[1], output_indices[2], input_indices[3],
                              resetMaximum, storeOutput, outputs)
          /\ UNCHANGED <<outputs, l2Vars>>
       \/ /\ variant = "fused"
          /\ tdf4_l2_writeOutputs(indices[1], indices[2], write, l2_partial_sums)
          /\ UNCHANGED <<poolVars, l2_partial_sums, received>>
       \/ /\ variant = "plain"
          /\ written' = tdf12_writeOutputs(indices[1], indices[2], indices[3], outputs)
          /\ UNCHANGED <<outputs, max_vals, l2Vars>>
    /\ Advance(TOP_LOOP[pc])
    /\ UNCHANGED <<genVars, accVars, seen, nwin, nwrites, laneVars, config, l2StageVars, pairVars, walk, tree_chain>>

InitStages == InitPoolDriver \/ InitFusedDriver \/ InitPlainDriver

NextStages == GeneratorStep \/ ExternStep \/ ReductionStep \/ L2Step \/ AggregatorStep

SpecStages == InitStages /\ [][NextStages]_vars

\* The place of a call in the order of an iteration: index generation,
\* reads, multiplication, the reduction stages by number, adjustment, and the
\* aggregator's calls.
StageRank(name) ==
    CASE name = "get_next_ijk"    -> 0
      [] name = "readInputs"      -> 1
      [] name = "readFilters"     -> 1
      [] name = "dot_product"     -> 2
      [] name = "accum_1"         -> 3
      [] name = "accum_2"         -> 4
      [] name = "accum_3"         -> 5
      [] name = "accum_4"         -> 6
      [] name = "adjust"          -> 7
      [] name = "writeOutputs"    -> 8
      [] name = "poolOutputs"     -> 8
      [] name = "l2_multiply"     -> 8
      [] name = "l2_accum"        -> 9
      [] name = "l2_writeOutputs" -> 10

\* The calls a complete iteration of the driver must have made.
ExpectedCalls ==
    LET once == {"get_next_ijk", "readInputs", "readFilters", "dot_product", "adjust"}
        aggregator == CASE variant = "pooled" -> {"poolOutputs"}
                        [] variant = "fused"  -> {"l2_multiply", "l2_accum", "l2_writeOutputs"}
                        [] variant = "plain"  -> {"writeOutputs"}
        reductions == CASE variant = "pooled" -> {"accum_1", "accum_2", "accum_3", "accum_4"}
                        [] variant = "fused"  -> {"accum_1", "accum_2"}
                        [] variant = "plain"  -> {"accum_1", "accum_2", "accum_3"}
    IN {[name |-> c, lane |-> 0] : c \in once \cup aggregator}
          \cup {[name |-> c, lane |-> n] : c \in reductions, n \in Channels}

\* The calls that store to out_data.
StoringCalls == {"writeOutputs", "poolOutputs", "l2_writeOutputs"}

\* C18: within every iteration of TOP_LOOP the index generator is called
\* exactly once and first, then the reads, then dot_product, then the
\* reduction stages in increasing stage number, then adjust, then the
\* aggregator; no call reads a local that an earlier stage of the same
\* iteration has not assigned yet, the sums handed to adjust are the totals of
\* the products of the iteration, and the call that stores to out_data is
\* the last call of the iteration.
C18_StageOrder ==
    /\ ~stale
    /\ \A a, b \in 1..Len(log) :
          a < b => StageRank(log[a].name) <= StageRank(log[b].name)
    /\ log # <<>> =>
          /\ log[1].name = "get_next_ijk"
          /\ Cardinality({a \in 1..Len(log) : log[a].name = "get_next_ijk"}) = 1
    /\ \A a \in 1..Len(log) :
          log[a].name \in StoringCalls => (a = Len(log) /\ pc = 1)
    /\ (pc = 1 /\ log # <<>>) =>
          /\ {log[a] : a \in 1..Len(log)} = ExpectedCalls
          /\ Len(log) = Cardinality(ExpectedCalls)
          /\ log[Len(log)].name \in StoringCalls
    /\ (\E a \in 1..Len(log) : log[a].name = "adjust") =>
          \A n \in Channels :
             sums[n] = SumRange(products[n], 0, VECTOR_SIZE - 1)

\* A fused iteration has run all its calls and its last call stored a row
\* of outputs.
C18_Witness ==
    /\ variant = "fused"
    /\ pc = 1
    /\ f > 1
    /\ Len(log) = Len(tdf4_TOP_LOOP)
    /\ log[Len(log)].name = "l2_writeOutputs"
    /\ l2_written # <<>>
    /\ \E n \in Channels : sums[n] > 0

\* C21: in every state of the pooled generator i = POOLING_FACTOR * i_out and
\* j = POOLING_FACTOR * j_out, with i_out < OUTPUT_HEIGHT, j_out < OUTPUT_WIDTH and
\* k < ChannelGroups; every call returns the input coordinate
\* (P*i_out + i_p, P*j_out + j_p), which lies in [0, P*OUTPUT_HEIGHT) x [0, P*OUTPUT_WIDTH).
C21_PooledCoupling ==
    variant = "pooled" =>
        /\ tdf2_i = POOLING_FACTOR * tdf2_i_out
        /\ tdf2_j = POOLING_FACTOR * tdf2_j_out
        /\ tdf2_i_out < OUTPUT_HEIGHT
        /\ tdf2_j_out < OUTPUT_WIDTH
        /\ tdf2_k < ChannelGroups
        /\ \A n \in 1..calls :
              LET e == trace[n] IN
              /\ e.ret[1][1] = POOLING_FACTOR * e.ret[2][1] + e.st[6]
              /\ e.ret[1][2] = POOLING_FACTOR * e.ret[2][2] + e.st[7]
              /\ e.ret[1][1] \in 0..(POOLING_FACTOR * OUTPUT_HEIGHT - 1)
              /\ e.ret[1][2] \in 0..(POOLING_FACTOR * OUTPUT_WIDTH - 1)

\* The call for the last sample of the last window of a pass has returned the
\* largest input coordinate.
C21_Witness ==
    /\ variant = "pooled"
    /\ calls = PooledIterations
    /\ input_indices[1] = POOLING_FACTOR * OUTPUT_HEIGHT - 1
    /\ input_indices[2] = POOLING_FACTOR * OUTPUT_WIDTH - 1
    /\ output_indices = <<OUTPUT_HEIGHT - 1, OUTPUT_WIDTH - 1>>

\* C22: at the entry of every call of the pooled generator its two assertions hold
\* (i_p <= POOLING_FACTOR and j_p <= POOLING_FACTOR), and in fact i_p < POOLING_FACTOR and
\* j_p < POOLING_FACTOR.
C22_PooledAssertions ==
    variant = "pooled" =>
        /\ tdf2_asserts(tdf2_i_p, tdf2_j_p)
        /\ tdf2_i_p < POOLING_FACTOR
        /\ tdf2_j_p < POOLING_FACTOR
        /\ \A n \in 1..calls :
              /\ tdf2_asserts(trace[n].st[6], trace[n].st[7])
              /\ trace[n].st[6] < POOLING_FACTOR
              /\ trace[n].st[7] < POOLING_FACTOR

\* A call was entered with both window counters at their largest value.
C22_Witness ==
    /\ variant = "pooled"
    /\ calls > PooledIterations
    /\ trace[calls].st[6] = POOLING_FACTOR - 1
    /\ trace[calls].st[7] = POOLING_FACTOR - 1

(***************************************************************************)
(* The plain generator called on its own and the fused driver, run after   *)
(* run: the reachable values of the plain and fused counters.              *)
(***************************************************************************)
InitRange == (InitGen /\ variant = "plain") \/ InitFusedDriver

NextRange ==
    \/ PlainCall
    \/ FusedIteration

SpecRange == InitRange /\ [][NextRange]_vars

\* C23: the plain and fused generators stay in range and never block: in every state
\* i < OUTPUT_HEIGHT, j < OUTPUT_WIDTH and k < ChannelGroups (plain) or k < FusionSteps
\* (fused), a further call is possible, and every assignment to out_data made by
\* l2_writeOutputs in the fused driver passes its three assertions.
C23_GeneratorsInRange ==
    /\ variant = "plain" =>
          /\ tdf6_i < OUTPUT_HEIGHT
          /\ tdf6_j < OUTPUT_WIDTH
          /\ tdf6_k < ChannelGroups
          /\ calls < MaxPasses * PlainIterations => ENABLED PlainCall
    /\ variant = "fused" =>
          /\ tdf4_i < OUTPUT_HEIGHT
          /\ tdf4_j < OUTPUT_WIDTH
          /\ tdf4_k < FusionSteps
          /\ ENABLED FusedCall
          /\ \A c \in DOMAIN l2_written : tdf4_l2_asserts(c[1], c[2], c[3])

\* The fused driver has written the row of the last position of a run.
C23_Witness ==
    /\ variant = "fused"
    /\ f = FusedIterations
    /\ indices = <<OUTPUT_HEIGHT - 1, OUTPUT_WIDTH - 1, FusionSteps - 1>>
    /\ <<OUTPUT_HEIGHT - 1, OUTPUT_WIDTH - 1, tdf4_OUTPUT_CHANS - 1>> \in DOMAIN l2_written

\* C24: a call of l2_writeOutputs with write false assigns no element of out_data (no
\* element is assigned by the call and the number of writes every element has received
\* in the run stays as it was); of the state of the function only running_sums changes.
C24_FusedNonCommitFrame ==
    [][(variant = "fused" /\ ~write') =>
          /\ l2_written' = <<>>
          /\ \A c \in FusedOutCoords :
                nwrites'[c] = IF f = FusedIterations THEN 0 ELSE nwrites[c]]_vars

\* After a call with write false the running sums have grown while the rows written
\* earlier in the run are still the only ones written.
C24_Witness ==
    /\ variant = "fused"
    /\ f > FusionSteps
    /\ f < FusedIterations
    /\ ~write
    /\ l2_written = <<>>
    /\ \E o \in L2Channels : running_sums[o] > 0
    /\ \E c \in FusedOutCoords : nwrites[c] = 1

\* C25: a call of l2_writeOutputs with write true assigns out_data[i_int][j_int][c] for
\* every channel c of the layer exactly once, each with the adjustment of the sum of
\* that same channel c made with the adjustments of channel c, and assigns no element
\* at any other row or column.
C25_FusedCommitComplete ==
    (variant = "fused" /\ f > 0 /\ write) =>
        LET done == tdf4_l2_assignments(0, indices[1], indices[2], write) IN
        /\ DOMAIN l2_written = {<<indices[1], indices[2], c>> : c \in L2Channels}
        /\ {done[n] : n \in 1..Len(done)} = DOMAIN l2_written
        /\ Len(done) = tdf4_OUTPUT_CHANS
        /\ \A c \in L2Channels :
              l2_written[<<indices[1], indices[2], c>>]
                  = L2Adjusted(ReceivedSum(received, c, Len(received)), c)

\* A commit where the channels hold different sums: the first channel received more
\* than the last one.
C25_Witness ==
    /\ variant = "fused"
    /\ f > FusionSteps
    /\ write
    /\ indices[1] = OUTPUT_HEIGHT - 1
    /\ l2_written[<<indices[1], indices[2], 0>>].adjusted
          > l2_written[<<indices[1], indices[2], tdf4_OUTPUT_CHANS - 1>>].adjusted

\* C26: in the fused driver, at the entry of every call of l2_writeOutputs made for
\* k = 0, the first call of a run included, running_sums[o] is 0 for every output
\* channel o.
C26_RunningSumsZeroAtPassStart ==
    [][(variant = "fused" /\ indices'[3] = 0) =>
          \A o \in L2Channels : running_sums[o] = 0]_vars

\* The first call of a position that follows a commit has stored its partial sums.
C26_Witness ==
    /\ variant = "fused"
    /\ f > FusionSteps
    /\ indices[3] = 0
    /\ \E c \in FusedOutCoords : nwrites[c] = 1
    /\ \E o \in L2Channels : running_sums[o] = MaxPartial /\ l2_partial_sums[o] = MaxPartial

(***************************************************************************)
(* Fused driver with the data of the second layer: tdf4_l2_multiply,       *)
(* tdf4_l2_accum and tdf4_l2_writeOutputs on the values tdf4_adjust         *)
(* delivers (tdf11 is the same code).                                      *)
(*                                                                         *)
(* The local array sums of tdf4_l2_accum is declared inside the loop over  *)
(* the groups without an initialiser and the loop adds into it, so what a  *)
(* group finds in it is whatever the storage held: any element of          *)
(* L2SumsAtEntry.                                                          *)
(***************************************************************************)
L1Channels == 0..(L1_OUTPUT_CHANS - 1)

\* l2_filter_data[OUTPUT_CHANS][L1_OUTPUT_CHANS]: the weights of the second layer.
l2_filter_data == [o \in L2Channels |-> [c \in L1Channels |-> (o + 2 * c) % 3]]

\* The adjusted first-layer sum of intermediate channel c at position (i, j): what
\* tdf4_adjust delivers for the input image of the run.
Intermediate(i, j, c) == 1 + ((i + 2 * j + c) % 2)

\* uint16_t l2_i = i / OUTPUT_CHANS (line 23).
tdf4_l2_i(i) == UINT16(i \div tdf4_OUTPUT_CHANS)

\* uint16_t l2_o = i % OUTPUT_CHANS (line 24).
tdf4_l2_o(i) == UINT16(i % tdf4_OUTPUT_CHANS)

\* Mutant: the group of L2 input channels is ignored.
tdf4_l2_ichan_nogroup(k, l2_i) == UINT16(l2_i)

\* uint16_t l2_ichan = k*OCHAN_SCALE_FACTOR + l2_i (line 25).
tdf4_l2_ichan(k, l2_i) == UINT16(k * OCHAN_SCALE_FACTOR + l2_i)

\* The three assertions of the loop body (lines 26-28).
tdf4_l2_multiply_asserts(l2_ichan, l2_i, l2_o) ==
    /\ l2_ichan < L1_OUTPUT_CHANS
    /\ l2_i < OCHAN_SCALE_FACTOR
    /\ l2_o < tdf4_OUTPUT_CHANS

\* One iteration of the loop L2_MUL (lines 21-29): the element of l2_products it
\* assigns, the pair it assigns it at, and whether its three assertions passed.
tdf4_L2_MUL_body(i, k, fmaps) ==
    LET l2_i == tdf4_l2_i(i)
        l2_o == tdf4_l2_o(i)
        l2_ichan == tdf4_l2_ichan(k, l2_i)
        ok == tdf4_l2_multiply_asserts(l2_ichan, l2_i, l2_o)
        val == IF ok THEN fmaps[l2_i] * l2_filter_data[l2_o][l2_ichan] ELSE 0
    IN [products |-> (<<l2_i, l2_o>> :> val),
        assigned |-> << <<l2_i, l2_o>> >>,
        asserts  |-> ok]

RECURSIVE tdf4_L2_MUL(_, _, _, _)
\* The iterations lo..hi of the loop L2_MUL in order: the elements of l2_products
\* they leave (a later assignment replaces an earlier one), the pairs assigned in
\* order, and whether every assertion passed.
tdf4_L2_MUL(lo, hi, k, fmaps) ==
    IF lo > hi THEN [products |-> <<>>, assigned |-> <<>>, asserts |-> TRUE]
    ELSE IF lo = hi THEN tdf4_L2_MUL_body(lo, k, fmaps)
    ELSE LET mid == (lo + hi) \div 2
             first == tdf4_L2_MUL(lo, mid, k, fmaps)
             rest == tdf4_L2_MUL(mid + 1, hi, k, fmaps)
         IN [products |-> rest.products @@ first.products,
             assigned |-> first.assigned \o rest.assigned,
             asserts  |-> first.asserts /\ rest.asserts]

\* tdf4_l2_multiply(intermediate_fmaps, l2_filter_data, l2_products, k): i runs from 0
\* while i < OUTPUT_CHANS * OCHAN_SCALE_FACTOR (line 20).
tdf4_l2_multiply(fmaps, k) ==
    tdf4_L2_MUL(0, UINT16(tdf4_OUTPUT_CHANS * OCHAN_SCALE_FACTOR) - 1, k, fmaps)

\* The groups of 16 output channels: group < OUTPUT_CHANS/16 (line 40).
L2Groups == 0..((tdf4_OUTPUT_CHANS \div 16) - 1)

\* Contents of data_t sums[16] as each group finds it: all zero, or one element of
\* one group left at 1.
L2SumsAtEntry ==
    {[g \in L2Groups |-> [s \in 0..15 |-> 0]]}
        \cup {[g \in L2Groups |-> [s \in 0..15 |-> IF g = g1 /\ s = s1 THEN 1 ELSE 0]] :
                 g1 \in L2Groups, s1 \in {0, 15}}

RECURSIVE tdf4_L2_ACC_2(_, _, _, _)
\* L2_ACC_2 and L2_ACC_3 from lane i on: sums[s] += l2_products[i][group*16 + s].
tdf4_L2_ACC_2(prods, sums0, group, i) ==
    IF i < OCHAN_SCALE_FACTOR
    THEN tdf4_L2_ACC_2(prods,
             [s \in 0..15 |-> sums0[s] + prods[<<i, UINT16(group * 16 + s)>>]],
             group, UINT16(i + 1))
    ELSE sums0

\* tdf4_l2_accum(l2_products, l2_partial_sums): l2_partial_sums[group*16 + s] = sums[s]
\* for every group, from what the group found in sums.
tdf4_l2_accum(prods, entry) ==
    LET done == [g \in L2Groups |-> tdf4_L2_ACC_2(prods, entry[g], g, 0)]
    IN [o \in 0..(16 * (tdf4_OUTPUT_CHANS \div 16) - 1) |-> done[o \div 16][o % 16]]

\* One iteration of TOP_LOOP in tdf4, from the adjusted first-layer sums on.
FusedDataIteration ==
    /\ variant = "fused"
    /\ tdf4_get_next_ijk
    /\ intermediate_fmaps' =
          [l \in Channels |->
              Intermediate(indices'[1], indices'[2], indices'[3] * OCHAN_SCALE_FACTOR + l)]
    /\ l2_products' = tdf4_l2_multiply(intermediate_fmaps', indices'[3]).products
    /\ l2_sums' \in L2SumsAtEntry
    /\ l2_partial_sums' = tdf4_l2_accum(l2_products', l2_sums')
    /\ tdf4_l2_writeOutputs(indices'[1], indices'[2], write', l2_partial_sums')
    /\ received' = IF f # 0 /\ indices'[1] = indices[1] /\ indices'[2] = indices[2]
                   THEN Append(received, l2_partial_sums')
                   ELSE <<l2_partial_sums'>>
    /\ f' = IF f = FusedIterations THEN 1 ELSE f + 1
    /\ LET base == IF f = FusedIterations THEN [c \in FusedOutCoords |-> 0] ELSE nwrites
       IN nwrites' = [c \in FusedOutCoords |->
                         IF c \in DOMAIN l2_written' THEN base[c] + 1 ELSE base[c]]
    /\ UNCHANGED <<variant, plainVars, pooledVars, pooledOut, calls, trace, accVars, poolVars,
                   laneVars, config, stepVars, pairVars, walk, tree_chain>>

NextFusedData == FusedDataIteration

SpecFusedData == InitFusedDriver /\ [][NextFusedData]_vars

\* The sum over the lanes of the products of output channel o.
LaneSum(prods, o) == SumRange([i \in Channels |-> prods[<<i, o>>]], 0, OCHAN_SCALE_FACTOR - 1)

\* C27: after a call of l2_accum, for every output channel o, l2_partial_sums[o] is the
\* sum over the lanes i of l2_products[i][o]: it depends on the products of this call
\* only, not on an earlier call or group or on what the local sums held before.
C27_L2AccumReduces ==
    (variant = "fused" /\ f > 0) =>
        /\ DOMAIN l2_partial_sums = L2Channels
        /\ \A o \in L2Channels : l2_partial_sums[o] = LaneSum(l2_products, o)

\* C28: a call of l2_multiply runs OUTPUT_CHANS * OCHAN_SCALE_FACTOR iterations and
\* assigns l2_products[l2_i][l2_o] exactly once for every lane l2_i and output channel
\* l2_o, to intermediate_fmaps[l2_i] * l2_filter_data[l2_o][k*OCHAN_SCALE_FACTOR + l2_i];
\* its three assertions hold for every k the generator returns.
C28_L2MultiplyCovers ==
    (variant = "fused" /\ f > 0) =>
        LET k == indices[3]
            r == tdf4_l2_multiply(intermediate_fmaps, k)
        IN /\ r.asserts
           /\ Len(r.assigned) = tdf4_OUTPUT_CHANS * OCHAN_SCALE_FACTOR
           /\ \A l \in Channels : \A o \in L2Channels :
                 /\ Cardinality({n \in 1..Len(r.assigned) : r.assigned[n] = <<l, o>>}) = 1
                 /\ l2_products[<<l, o>>] =
                       intermediate_fmaps[l] * l2_filter_data[o][k * OCHAN_SCALE_FACTOR + l]

\* A call with k > 0 has filled l2_products with a nonzero product in the last lane.
C28_Witness ==
    /\ variant = "fused"
    /\ f > 0
    /\ indices[3] > 0
    /\ DOMAIN l2_products = Channels \X L2Channels
    /\ \E o \in L2Channels : l2_products[<<OCHAN_SCALE_FACTOR - 1, o>>] > 0

\* The second-layer sum of output channel o at position (i, j): every intermediate
\* channel c once, times its second-layer filter weight.
L2Reference(i, j, o) ==
    SumRange([c \in L1Channels |-> Intermediate(i, j, c) * l2_filter_data[o][c]],
             0, L1_OUTPUT_CHANS - 1)

\* C29: the value the fused driver writes to out_data[i][j][o] is the second-layer
\* adjustment of the sum over all L1_OUTPUT_CHANS intermediate channels c of
\* intermediate(i, j, c) * l2_filter_data[o][c], and over a pass this holds for every
\* position and output channel.
C29_FusedEndToEnd ==
    (variant = "fused" /\ f > 0 /\ write) =>
        \A o \in L2Channels :
            /\ <<indices[1], indices[2], o>> \in DOMAIN l2_written
            /\ l2_written[<<indices[1], indices[2], o>>] =
                   L2Adjusted(L2Reference(indices[1], indices[2], o), o)

(***************************************************************************)
(* Two runs of the pooled driver side by side.  The index generator takes  *)
(* no input, so both runs are at the same call; each run has its own       *)
(* samples, its own static max_vals and its own writeOutputs calls.        *)
(***************************************************************************)

\* The sample vectors of the two runs: every channel alike, or channel 0 alone at MaxPool.
PairSamples ==
    {[o \in Channels |-> v] : v \in PoolVals}
        \cup {[o \in Channels |-> IF o = 0 THEN MaxPool ELSE 0]}

\* What the two runs of the pooled driver leave untouched.
pairIdle ==
    <<variant, plainVars, fusedVars, indices, write, calls, trace, accVars, l2Vars, laneVars,
      config, stepVars, l2StageVars, walk, tree_chain>>

\* One iteration of TOP_LOOP in tdf2, in both runs.
PoolPairIteration ==
    /\ variant = "pooled"
    /\ tdf2_get_next_ijk
    /\ \E outs \in PairSamples :
          /\ outputs' = outs
          /\ tdf2_poolOutputs(output_indices'[1], output_indices'[2], input_indices'[3],
                              resetMaximum', storeOutput', outs)
          /\ seen' = [o \in Channels |->
                         IF resetMaximum' THEN {outs[o]} ELSE seen[o] \cup {outs[o]}]
    /\ \E outs \in PairSamples :
          /\ same' = ((resetMaximum' \/ same) /\ outs = outputs')
          /\ max_vals_b' = [o \in Channels |->
                               tdf2_max_update(resetMaximum', outs[o], max_vals_b[o])]
          /\ written_b' = IF storeOutput'
                          THEN [i |-> output_indices'[1], j |-> output_indices'[2],
                                k |-> input_indices'[3], vals |-> max_vals_b']
                          ELSE <<>>
    /\ differed' = IF resetMaximum' THEN max_vals # max_vals_b ELSE differed
    /\ nwin' = IF resetMaximum' THEN 1 ELSE nwin + 1
    /\ f' = IF f = PooledIterations THEN 1 ELSE f + 1
    /\ LET base == IF f = PooledIterations THEN [c \in PooledOutCoords |-> 0] ELSE nwrites
       IN nwrites' = IF written' # <<>>
                     THEN [base EXCEPT ![<<written'.i, written'.j, written'.k>>] = @ + 1]
                     ELSE base
    /\ UNCHANGED pairIdle

NextPoolPair == PoolPairIteration

SpecPoolPair == InitPoolDriver /\ [][NextPoolPair]_vars

\* C30: a commit call leaves max_vals equal to the values it handed to writeOutputs; the
\* values written for a window are the maxima of the samples of that window alone; and
\* two runs that reach a window's reset call with different max_vals and receive the
\* same samples from that call on write the same values for the window.
C30_PoolStateDoesNotLeak ==
    (variant = "pooled" /\ f > 0) =>
        /\ storeOutput =>
              /\ written # <<>>
              /\ written.vals = max_vals
              /\ \A o \in Channels : written.vals[o] = SetMax(seen[o])
              /\ written_b # <<>>
              /\ written_b.vals = max_vals_b
        /\ same => max_vals_b = max_vals
        /\ (same /\ storeOutput) => written_b = written

\* A window that the two runs entered with different max_vals and in which both
\* received the same samples, none above the smaller old maximum, is committed.
C30_Witness ==
    /\ variant = "pooled"
    /\ f > POOLING_FACTOR * POOLING_FACTOR
    /\ storeOutput
    /\ same
    /\ differed
    /\ written_b = written
    /\ \A o \in Channels : written.vals[o] = 0

\* tdf2_writeOutputs_aligned(i_out, j_out, k, max_vals, out_data): the elements of
\* out_data the call assigns, channel k*OCHAN_SCALE_FACTOR + o at (i_out, j_out) from
\* element o of its fourth argument.
tdf2_writeOutputs_aligned(i_out, j_out, k, vals) ==
    [c \in {<<i_out, j_out, k * OCHAN_SCALE_FACTOR + o>> : o \in Channels} |->
        vals[c[3] - k * OCHAN_SCALE_FACTOR]]

\* The elements of out_data a call of tdf2_poolOutputs assigns: those of its call of
\* writeOutputs, none without one (out_data is only passed on, line 27).
PoolAssigned(w) ==
    IF w = <<>> THEN <<>> ELSE tdf2_writeOutputs_aligned(w.i, w.j, w.k, w.vals)

\* C31: a call of poolOutputs with storeOutput false assigns no element of out_data;
\* a call with storeOutput true assigns exactly the OCHAN_SCALE_FACTOR channels
\* k*OCHAN_SCALE_FACTOR .. k*OCHAN_SCALE_FACTOR + OCHAN_SCALE_FACTOR - 1 at
\* (i_out, j_out), all inside out_data, and nothing else.
C31_PooledNonCommitFrame ==
    [][/\ ~storeOutput' => PoolAssigned(written') = <<>>
       /\ storeOutput' =>
             LET i_out == output_indices'[1]
                 j_out == output_indices'[2]
                 k == input_indices'[3]
             IN /\ DOMAIN PoolAssigned(written') =
                      {c \in (0..(OUTPUT_HEIGHT - 1)) \X (0..(OUTPUT_WIDTH - 1))
                                 \X (0..(OUTPUT_CHANS - 1)) :
                          /\ c[1] = i_out
                          /\ c[2] = j_out
                          /\ c[3] \div OCHAN_SCALE_FACTOR = k}
                /\ Cardinality(DOMAIN PoolAssigned(written')) = OCHAN_SCALE_FACTOR]_vars

\* A commit call for a channel group other than the first, away from the origin, has
\* assigned its group; the call before it assigned nothing.
C31_Witness ==
    /\ variant = "pooled"
    /\ storeOutput
    /\ input_indices[3] > 0
    /\ output_indices[2] > 0
    /\ <<output_indices[1], output_indices[2], input_indices[3] * OCHAN_SCALE_FACTOR>>
           \in DOMAIN PoolAssigned(written)
    /\ \E o \in Channels : written.vals[o] > 0

(***************************************************************************)
(* Reduction of the lane of tdf8: products[0] (288 values) goes through    *)
(* tdf8_accum_1 .. tdf8_accum_4.  The tree stages reduce a word only part  *)
(* of the way and hand on several sums per word.                           *)
(***************************************************************************)

\* Mutant: a position past the end of the input repeats the last input.
tdf8_accum_1_repeat(accum_in) ==
    [q \in 0..79 |->
        LET i1 == q \div 16
            i == UINT16(i1 * 64)
            vals == [w \in 0..63 |-> IF i + w < 288 THEN accum_in[i + w] ELSE accum_in[287]]
            sumA == [t \in 0..31 |-> vals[63 - 2 * t] + vals[62 - 2 * t]]
            sumB == [u \in 0..15 |-> sumA[2 * u] + sumA[2 * u + 1]]
        IN sumB[15 - (q % 16)]]

\* tdf8_accum_1: 288 inputs to 80 outputs, 5 words of 64.  sumA is sum0..sum31, sumB
\* is sum32..sum47; accum_out[out_idx+r] = sum(47-r), out_idx += 16.
tdf8_accum_1(accum_in) ==
    [q \in 0..79 |->
        LET i1 == q \div 16
            i == UINT16(i1 * 64)
            vals == [w \in 0..63 |-> IF i + w < 288 THEN accum_in[i + w] ELSE 0]
            sumA == [t \in 0..31 |-> vals[63 - 2 * t] + vals[62 - 2 * t]]
            sumB == [u \in 0..15 |-> sumA[2 * u] + sumA[2 * u + 1]]
        IN sumB[15 - (q % 16)]]

\* tdf8_accum_2: 80 inputs to 12 outputs, 3 words of 32.  sumA is sum0..sum15, sumB is
\* sum16..sum23, sumC is sum24..sum27; accum_out[out_idx+r] = sum(27-r), out_idx += 4.
tdf8_accum_2(accum_in) ==
    [q \in 0..11 |->
        LET i1 == q \div 4
            i == UINT16(i1 * 32)
            vals == [w \in 0..31 |-> IF i + w < 80 THEN accum_in[i + w] ELSE 0]
            sumA == [t \in 0..15 |-> vals[31 - 2 * t] + vals[30 - 2 * t]]
            sumB == [u \in 0..7 |-> sumA[2 * u] + sumA[2 * u + 1]]
            sumC == [v \in 0..3 |-> sumB[2 * v] + sumB[2 * v + 1]]
        IN sumC[3 - (q % 4)]]

\* tdf8_accum_3: 12 inputs to 2 outputs, 2 words of 8.
tdf8_accum_3(accum_in) ==
    [i1 \in 0..1 |->
        LET i == UINT16(i1 * 8)
            vals == [w \in 0..7 |-> IF i + w < 12 THEN accum_in[i + w] ELSE 0]
            sum0 == vals[7] + vals[6]
            sum1 == vals[5] + vals[4]
            sum2 == vals[3] + vals[2]
            sum3 == vals[1] + vals[0]
            sum4 == sum0 + sum1
            sum5 == sum2 + sum3
            sum6 == sum4 + sum5
        IN sum6]

\* tdf8_accum_4: data_t sum = 0.0; for (int i = 0; i < 2; i++) sum += accum_in[i].
tdf8_accum_4(accum_in) ==
    LET sum0 == 0
        sum1 == sum0 + accum_in[0]
        sum2 == sum1 + accum_in[1]
    IN sum2

\* tdf8_accum_1(products[0], accum1_out_0)
Tdf8Accum1 ==
    /\ stage = "products"
    /\ accum1_out' = tdf8_accum_1(products)
    /\ stage' = "accum1"
    /\ UNCHANGED <<products, accum2_out, accum3_out, sum, psum, accIdle>>

\* tdf8_accum_2(accum1_out_0, accum2_out_0)
Tdf8Accum2 ==
    /\ stage = "accum1"
    /\ accum2_out' = tdf8_accum_2(accum1_out)
    /\ stage' = "accum2"
    /\ UNCHANGED <<products, accum1_out, accum3_out, sum, psum, accIdle>>

\* tdf8_accum_3(accum2_out_0, accum3_out_0)
Tdf8Accum3 ==
    /\ stage = "accum2"
    /\ accum3_out' = tdf8_accum_3(accum2_out)
    /\ stage' = "accum3"
    /\ UNCHANGED <<products, accum1_out, accum2_out, sum, psum, accIdle>>

\* sums[0] = tdf8_accum_4(accum3_out_0)
Tdf8Accum4 ==
    /\ stage = "accum3"
    /\ sum' = tdf8_accum_4(accum3_out)
    /\ stage' = "sums"
    /\ UNCHANGED <<products, accum1_out, accum2_out, accum3_out, psum, accIdle>>

\* Vectors of length n with one non-zero element.
OneHotInputs(n) ==
    {[m \in 0..(n - 1) |-> IF m = a THEN x ELSE 0] : a \in 0..(n - 1), x \in DataVals}

\* Vectors of length n with a non-zero element in the last word of tdf8_accum_1 (from
\* 256 on) or at its first index, and a second one at a word or half-word boundary.
EdgeInputs(n) ==
    {[m \in 0..(n - 1) |-> IF m = a THEN x ELSE IF m = b THEN y ELSE 0] :
        a \in {0, 256, n - 1}, b \in {63, 64, 79, 255, 257, n - 2},
        x \in {0 - MaxData, MaxData}, y \in {0 - MaxData, 1}}

InitTdf8Accum ==
    /\ InitGenIdle
    /\ stage = "products"
    /\ products \in OneHotInputs(288) \cup EdgeInputs(288) \cup StripedInputs(288)
    /\ accum1_out = <<>>
    /\ accum2_out = <<>>
    /\ accum3_out = <<>>
    /\ sum = 0
    /\ psum = <<>>

NextTdf8Accum ==
    \/ Tdf8Accum1
    \/ Tdf8Accum2
    \/ Tdf8Accum3
    \/ Tdf8Accum4

SpecTdf8Accum == InitTdf8Accum /\ [][NextTdf8Accum]_vars

\* C32: a tree stage that reduces a word only part of the way and pads a ragged last
\* word with zero keeps the sum: the outputs of tdf8_accum_1 (288 -> 80), of
\* tdf8_accum_2 (80 -> 12) and of tdf8_accum_3 (12 -> 2) each add up to the sum of the
\* stage's inputs, and tdf8_accum_4 returns the exact sum of the 288 inputs.
C32_PartialTreeKeepsSum ==
    LET total == SumRange(products, 0, 287)
    IN /\ stage \in {"accum1", "accum2", "accum3", "sums"} =>
             /\ DOMAIN accum1_out = 0..79
             /\ SumRange(accum1_out, 0, 79) = total
       /\ stage \in {"accum2", "accum3", "sums"} =>
             /\ DOMAIN accum2_out = 0..11
             /\ SumRange(accum2_out, 0, 11) = total
       /\ stage \in {"accum3", "sums"} =>
             /\ DOMAIN accum3_out = 0..1
             /\ accum3_out[0] + accum3_out[1] = total
       /\ stage = "sums" => sum = total

\* A vector whose only non-zero values sit in the ragged last word has been reduced:
\* the last word of stage 1 and the last word of stage 2 carry the whole sum.
C32_Witness ==
    /\ stage = "sums"
    /\ sum # 0
    /\ products[287] # 0
    /\ \A m \in 0..255 : products[m] = 0
    /\ \E q \in 64..79 : accum1_out[q] # 0
    /\ \E q \in 8..11 : accum2_out[q] # 0
    /\ accum3_out[1] = sum

(***************************************************************************)
(* The loops of a pipelined tree stage, one array access at a time: which  *)
(* elements of accum_in are read and which elements of accum_out are       *)
(* assigned, in order.                                                     *)
(***************************************************************************)

\* Declared lengths and loop constants of the stages: accum_in[INPUT], accum_out[OUTPUT],
\* i1 < WORDS, i = i1 * WRPC, w < WRPC, the test i+w < BOUND, and OUTS assignments
\* accum_out[out_idx+0 .. out_idx+OUTS-1] followed by out_idx += OUTS.
tdf8_accum_1_loops ==
    [INPUT |-> 288, OUTPUT |-> 80, WORDS |-> 5, WRPC |-> 64, BOUND |-> 288, OUTS |-> 16]

tdf8_accum_2_loops ==
    [INPUT |-> 80, OUTPUT |-> 12, WORDS |-> 3, WRPC |-> 32, BOUND |-> 80, OUTS |-> 4]

tdf8_accum_3_loops ==
    [INPUT |-> 12, OUTPUT |-> 2, WORDS |-> 2, WRPC |-> 8, BOUND |-> 12, OUTS |-> 1]

tdf9_accum_1_loops ==
    [INPUT |-> 256, OUTPUT |-> 32, WORDS |-> 8, WRPC |-> 32, BOUND |-> 256, OUTS |-> 4]

tdf1_accum_1_loops ==
    [INPUT |-> 27, OUTPUT |-> 14, WORDS |-> 14, WRPC |-> 2, BOUND |-> 27, OUTS |-> 1]

TreeStages ==
    {"tdf8_accum_1", "tdf8_accum_2", "tdf8_accum_3", "tdf9_accum_1", "tdf1_accum_1"}

TreeLoops(fn) ==
    CASE fn = "tdf8_accum_1" -> tdf8_accum_1_loops
      [] fn = "tdf8_accum_2" -> tdf8_accum_2_loops
      [] fn = "tdf8_accum_3" -> tdf8_accum_3_loops
      [] fn = "tdf9_accum_1" -> tdf9_accum_1_loops
      [] fn = "tdf1_accum_1" -> tdf1_accum_1_loops

\* Mutant: the word is loaded without the bounds check.
TreeReadIndex_unchecked(loops, i, w) == {i + w}

\* The elements of accum_in the statement
\* vals[w] = (i+w < BOUND) ? accum_in[i+w] : (data_t)0 reads.
TreeReadIndex(loops, i, w) == IF i + w < loops.BOUND THEN {i + w} ELSE {}

\* A stage is entered: uint16_t out_idx = 0, i1 = 0, nothing accessed yet.
InitTreeWalk ==
    /\ variant = "none"
    /\ InitPlainStatics
    /\ InitPooledStatics
    /\ InitFusedStatics
    /\ InitOutParams
    /\ InitSteps
    /\ InitBuild
    /\ calls = 0
    /\ trace = <<>>
    /\ InitAccIdle
    /\ InitPool
    /\ InitDriverIdle
    /\ InitL2Idle
    /\ InitLaneIdle
    /\ InitL2StageIdle
    /\ InitPair
    /\ InitChainIdle
    /\ \E fn \in TreeStages :
          walk = [fn |-> fn, at |-> "WRPC_LOOP", i1 |-> 0, w |-> 0, out_idx |-> 0, r |-> 0,
                  read |-> {}, assigned |-> <<>>]

walkIdle ==
    <<genVars, accVars, poolVars, driverVars, l2Vars, laneVars, config, stepVars, l2StageVars,
      pairVars, tree_chain>>

\* One iteration of WRPC_LOOP; after the last one the sums are formed from vals alone
\* and the stores follow.
TreeRead ==
    /\ walk # <<>>
    /\ walk.at = "WRPC_LOOP"
    /\ LET loops == TreeLoops(walk.fn)
           i == UINT16(walk.i1 * loops.WRPC)
           w1 == UINT16(walk.w + 1)
       IN walk' = [walk EXCEPT !.read = @ \cup TreeReadIndex(loops, i, walk.w),
                               !.w = w1,
                               !.at = IF w1 < loops.WRPC THEN "WRPC_LOOP" ELSE "store",
                               !.r = 0]
    /\ UNCHANGED walkIdle

\* One assignment accum_out[out_idx+r] = sumN; after the last one of the word
\* out_idx += OUTS and IL_LOOP goes on with the next i1, or the function returns.
TreeStore ==
    /\ walk # <<>>
    /\ walk.at = "store"
    /\ LET loops == TreeLoops(walk.fn)
           r1 == walk.r + 1
           last == (r1 = loops.OUTS)
           i2 == UINT16(walk.i1 + 1)
       IN walk' = [walk EXCEPT !.assigned = Append(@, walk.out_idx + walk.r),
                               !.r = r1,
                               !.out_idx = IF last THEN UINT16(@ + loops.OUTS) ELSE @,
                               !.i1 = IF last THEN i2 ELSE @,
                               !.w = IF last THEN 0 ELSE @,
                               !.at = IF ~last THEN "store"
                                      ELSE IF i2 < loops.WORDS THEN "WRPC_LOOP"
                                      ELSE "return"]
    /\ UNCHANGED walkIdle

NextTreeWalk ==
    \/ TreeRead
    \/ TreeStore

SpecTreeWalk == InitTreeWalk /\ [][NextTreeWalk]_vars

\* C33: in a tree stage every element of accum_in that is read has an index below the
\* declared length of accum_in, every assignment to accum_out has an index below the
\* declared length of accum_out, no element is assigned twice, and when the stage
\* returns every element of accum_out has been assigned exactly once (WORDS * OUTS is
\* the declared length).
C33_TreeIndexSafety ==
    (walk # <<>>) =>
        LET loops == TreeLoops(walk.fn)
            n == Len(walk.assigned)
        IN /\ walk.read \subseteq 0..(loops.INPUT - 1)
           /\ \A m \in 1..n : walk.assigned[m] \in 0..(loops.OUTPUT - 1)
           /\ \A m1 \in 1..n : \A m2 \in 1..n :
                 (walk.assigned[m1] = walk.assigned[m2]) => (m1 = m2)
           /\ loops.WORDS * loops.OUTS = loops.OUTPUT
           /\ (walk.at = "return") =>
                 /\ n = loops.OUTPUT
                 /\ {walk.assigned[m] : m \in 1..n} = 0..(loops.OUTPUT - 1)

\* tdf8_accum_1 has returned: its ragged last word read nothing from 288 on, all 288
\* inputs were read and all 80 outputs assigned.
C33_Witness ==
    /\ walk # <<>>
    /\ walk.fn = "tdf8_accum_1"
    /\ walk.at = "return"
    /\ walk.i1 = 5
    /\ walk.read = 0..287
    /\ Len(walk.assigned) = 80
    /\ walk.assigned[80] = 79

(***************************************************************************)
(* Two instantiations of one layer side by side on the same products: the  *)
(* chain with interleaved stages and the chain of tree stages, for tdf2    *)
(* (the two copies in tdf2.cpp) and for tdf12.                             *)
(***************************************************************************)

\* psum after the accumulation loops of the first tdf2_accum_1, from its contents at entry.
tdf2_accum_1_psum(accum_in, psum_entry) ==
    LET PSUM_LEN == 16
        INPUT_SIZE == 144
    IN AccumLoopOuter(accum_in, psum_entry, 0, PSUM_LEN, INPUT_SIZE)

\* OUTPUT_LOOP of the first tdf2_accum_1: accum_out[q] = psum[q].
tdf2_accum_1_out(ps) == [q \in 0..15 |-> ps[q]]

RECURSIVE tdf2_accum_2_loop(_, _, _)
\* for (int i = from; i < 16; i++) sum += accum_in[i], from the value of sum so far.
tdf2_accum_2_loop(accum_in, i, acc) ==
    IF i < 16 THEN tdf2_accum_2_loop(accum_in, i + 1, acc + accum_in[i]) ELSE acc

\* The first tdf2_accum_2: data_t sum = 0.0; sixteen additions.
tdf2_accum_2(accum_in) == tdf2_accum_2_loop(accum_in, 0, 0)

\* The second tdf2_accum_1: 144 inputs to 9 outputs, words of 16.  sumA is sum0..sum7,
\* sumB is sum8..sum11, sumC is sum12..sum13, accum_out[out_idx+0] = sum14.
tdf2_accum_1_tree(accum_in) ==
    [i1 \in 0..8 |->
        LET i == UINT16(i1 * 16)
            vals == [w \in 0..15 |-> IF i + w < 144 THEN accum_in[i + w] ELSE 0]
            sumA == [t \in 0..7 |-> vals[15 - 2 * t] + vals[14 - 2 * t]]
            sumB == [u \in 0..3 |-> sumA[2 * u] + sumA[2 * u + 1]]
            sumC == [v \in 0..1 |-> sumB[2 * v] + sumB[2 * v + 1]]
            sum14 == sumC[0] + sumC[1]
        IN sum14]

\* The second tdf2_accum_2: 9 inputs to 5 outputs, words of 2.
tdf2_accum_2_tree(accum_in) ==
    [i1 \in 0..4 |->
        LET i == UINT16(i1 * 2)
            vals == [w \in 0..1 |-> IF i + w < 9 THEN accum_in[i + w] ELSE 0]
            sum0 == vals[1] + vals[0]
        IN sum0]

RECURSIVE tdf2_accum_3_loop(_, _, _)
\* for (int i = from; i < 5; i++) sum += accum_in[i], from the value of sum so far.
tdf2_accum_3_loop(accum_in, i, acc) ==
    IF i < 5 THEN tdf2_accum_3_loop(accum_in, i + 1, acc + accum_in[i]) ELSE acc

\* tdf2_accum_3 (second copy only): data_t sum = 0.0; five additions.
tdf2_accum_3(accum_in) == tdf2_accum_3_loop(accum_in, 0, 0)

\* tdf12_accum_1 of the tree chain: 128 inputs to 32 outputs, 4 words of 32.  sumA is
\* sum0..sum15, sumB is sum16..sum23; accum_out[out_idx+r] = sum(23-r), out_idx += 8.
tdf12_accum_1_tree(accum_in) ==
    [q \in 0..31 |->
        LET i1 == q \div 8
            i == UINT16(i1 * 32)
            vals == [w \in 0..31 |-> IF i + w < 128 THEN accum_in[i + w] ELSE 0]
            sumA == [t \in 0..15 |-> vals[31 - 2 * t] + vals[30 - 2 * t]]
            sumB == [u \in 0..7 |-> sumA[2 * u] + sumA[2 * u + 1]]
        IN sumB[7 - (q % 8)]]

\* tdf12_accum_2 of the tree chain: 32 inputs to 4 outputs, 2 words of 16.  sumA is
\* sum0..sum7, sumB is sum8..sum11, sumC is sum12..sum13; accum_out[out_idx+r] =
\* sum(13-r), out_idx += 2.
tdf12_accum_2_tree(accum_in) ==
    [q \in 0..3 |->
        LET i1 == q \div 2
            i == UINT16(i1 * 16)
            vals == [w \in 0..15 |-> IF i + w < 32 THEN accum_in[i + w] ELSE 0]
            sumA == [t \in 0..7 |-> vals[15 - 2 * t] + vals[14 - 2 * t]]
            sumB == [u \in 0..3 |-> sumA[2 * u] + sumA[2 * u + 1]]
            sumC == [v \in 0..1 |-> sumB[2 * v] + sumB[2 * v + 1]]
        IN sumC[1 - (q % 2)]]

\* tdf12_accum_3 of the tree chain: 4 inputs to 1 output.
tdf12_accum_3_tree(accum_in) ==
    LET sum0 == accum_in[3] + accum_in[2]
        sum1 == accum_in[1] + accum_in[0]
        sum2 == sum0 + sum1
    IN sum2

\* What the reduction chains of the two instantiations leave untouched.
chainIdle ==
    <<genVars, poolVars, driverVars, l2Vars, laneVars, config, stepVars, l2StageVars,
      pairVars, walk>>

\* The chain tdf2_accum_1, tdf2_accum_2 of the first copy of tdf2 on one lane.
Tdf2Interleaved ==
    /\ tree_chain # <<>>
    /\ tree_chain.layer = "tdf2"
    /\ stage = "products"
    /\ \E dirty \in BOOLEAN :
          psum' = tdf2_accum_1_psum(products, PsumLeft(16, dirty))
    /\ accum1_out' = tdf2_accum_1_out(psum')
    /\ sum' = tdf2_accum_2(accum1_out')
    /\ stage' = "sums"
    /\ UNCHANGED <<products, accum2_out, accum3_out, chainIdle, tree_chain>>

\* The chain tdf2_accum_1, tdf2_accum_2, tdf2_accum_3 of the second copy of tdf2.
Tdf2Tree ==
    /\ tree_chain # <<>>
    /\ tree_chain.layer = "tdf2"
    /\ ~tree_chain.done
    /\ LET a1 == tdf2_accum_1_tree(products)
           a2 == tdf2_accum_2_tree(a1)
       IN tree_chain' = [layer |-> "tdf2", done |-> TRUE, accum1_out |-> a1,
                         accum2_out |-> a2, sum |-> tdf2_accum_3(a2)]
    /\ UNCHANGED <<accVars, chainIdle>>

\* The chain tdf12_accum_1 .. tdf12_accum_4 of tdf12.cpp on one lane.
Tdf12Interleaved ==
    /\ tree_chain # <<>>
    /\ tree_chain.layer = "tdf12"
    /\ stage = "products"
    /\ \E dirty \in 0..2 :
          /\ accum1_out' =
                tdf12_accum_1_out(tdf12_accum_1_psum(products, PsumLeft(32, dirty = 1)))
          /\ psum' = tdf12_accum_2_psum(accum1_out', PsumLeft(8, dirty = 2))
    /\ accum2_out' = tdf12_accum_2_out(psum')
    /\ accum3_out' = tdf12_accum_3(accum2_out')
    /\ sum' = tdf12_accum_4(accum3_out')
    /\ stage' = "sums"
    /\ UNCHANGED <<products, chainIdle, tree_chain>>

\* The chain tdf12_accum_1 .. tdf12_accum_3 of the tree instantiation of tdf12.
Tdf12Tree ==
    /\ tree_chain # <<>>
    /\ tree_chain.layer = "tdf12"
    /\ ~tree_chain.done
    /\ LET a1 == tdf12_accum_1_tree(products)
           a2 == tdf12_accum_2_tree(a1)
       IN tree_chain' = [layer |-> "tdf12", done |-> TRUE, accum1_out |-> a1,
                         accum2_out |-> a2, sum |-> tdf12_accum_3_tree(a2)]
    /\ UNCHANGED <<accVars, chainIdle>>

\* Both instantiations are handed the same product vector.
InitChains ==
    /\ variant = "none"
    /\ InitPlainStatics
    /\ InitPooledStatics
    /\ InitFusedStatics
    /\ InitOutParams
    /\ InitSteps
    /\ InitBuild
    /\ calls = 0
    /\ trace = <<>>
    /\ InitPool
    /\ InitDriverIdle
    /\ InitL2Idle
    /\ InitLaneIdle
    /\ InitL2StageIdle
    /\ max_vals_b = [o \in 0..(OCHAN_SCALE_FACTOR - 1) |-> 0]
    /\ written_b = <<>>
    /\ same = TRUE
    /\ differed = FALSE
    /\ InitWalkIdle
    /\ stage = "products"
    /\ \E layer \in {"tdf2", "tdf12"} :
          /\ tree_chain = [layer |-> layer, done |-> FALSE, accum1_out |-> <<>>,
                           accum2_out |-> <<>>, sum |-> 0]
          /\ products \in LET n == IF layer = "tdf2" THEN 144 ELSE 128
                           IN OneHotInputs(n) \cup StripedInputs(n)
    /\ accum1_out = <<>>
    /\ accum2_out = <<>>
    /\ accum3_out = <<>>
    /\ sum = 0
    /\ psum = <<>>

NextChains ==
    \/ Tdf2Interleaved
    \/ Tdf2Tree
    \/ Tdf12Interleaved
    \/ Tdf12Tree

SpecChains == InitChains /\ [][NextChains]_vars

\* C34: the two instantiations of a layer return the same scalar for every product
\* vector: the chain of tdf2 with the interleaved stage (144 -> 16 -> 1) and the tree
\* chain of tdf2 (144 -> 9 -> 5 -> 1) agree, and the chain of tdf12 with interleaved
\* stages (128 -> 32 -> 8 -> 4 -> 1) and its tree chain (128 -> 32 -> 4 -> 1) agree.
C34_TreeShapeInvariance ==
    (tree_chain # <<>> /\ tree_chain.done /\ stage = "sums") => (sum = tree_chain.sum)

(***************************************************************************)
(* The per-lane reduction calls of one iteration of tdf12 in any order     *)
(* that respects the data flow of each lane: tdf12_accum_1 .. tdf12_accum_4 *)
(* of lane n run in this order, the calls of different lanes interleave.   *)
(* psum[1] and psum[2] hold what the last call of tdf12_accum_1 and of      *)
(* tdf12_accum_2 left in its local array psum; the next call of the same   *)
(* function finds its psum zero or with that content.                      *)
(***************************************************************************)

\* data_t psum[n] as a call of accumulation stage st finds it: zeros, or (reuse) what
\* the last call of the same function left.
PsumFound(st, n, reuse) ==
    [p \in 0..(n - 1) |-> IF reuse /\ psum[st] # <<>> THEN psum[st][p] ELSE 0]

laneChainIdle ==
    <<genVars, poolVars, driverVars, l2Vars, ifmap_vec, weight_vecs, config, stepVars,
      l2StageVars, pairVars, walk, tree_chain>>

\* tdf12_accum_1(products[n], accum1_out_n)
LaneAccum1(n) ==
    /\ stage[n] = "products"
    /\ \E reuse \in BOOLEAN :
          psum' = [psum EXCEPT ![1] = tdf12_accum_1_psum(products[n], PsumFound(1, 32, reuse))]
    /\ accum1_out' = [accum1_out EXCEPT ![n] = tdf12_accum_1_out(psum'[1])]
    /\ stage' = [stage EXCEPT ![n] = "accum1"]
    /\ UNCHANGED <<products, accum2_out, accum3_out, sum, sums, laneChainIdle>>

\* tdf12_accum_2(accum1_out_n, accum2_out_n)
LaneAccum2(n) ==
    /\ stage[n] = "accum1"
    /\ \E reuse \in BOOLEAN :
          psum' = [psum EXCEPT ![2] = tdf12_accum_2_psum(accum1_out[n], PsumFound(2, 8, reuse))]
    /\ accum2_out' = [accum2_out EXCEPT ![n] = tdf12_accum_2_out(psum'[2])]
    /\ stage' = [stage EXCEPT ![n] = "accum2"]
    /\ UNCHANGED <<products, accum1_out, accum3_out, sum, sums, laneChainIdle>>

\* tdf12_accum_3(accum2_out_n, accum3_out_n)
LaneAccum3(n) ==
    /\ stage[n] = "accum2"
    /\ accum3_out' = [accum3_out EXCEPT ![n] = tdf12_accum_3(accum2_out[n])]
    /\ stage' = [stage EXCEPT ![n] = "accum3"]
    /\ UNCHANGED <<products, accum1_out, accum2_out, sum, sums, psum, laneChainIdle>>

\* sums[n] = tdf12_accum_4(accum3_out_n)
LaneAccum4(n) ==
    /\ stage[n] = "accum3"
    /\ sums' = [sums EXCEPT ![n] = tdf12_accum_4(accum3_out[n])]
    /\ stage' = [stage EXCEPT ![n] = "sums"]
    /\ UNCHANGED <<products, accum1_out, accum2_out, accum3_out, sum, psum, laneChainIdle>>

\* After tdf12_dot_product: every lane has its products, no reduction call has run.
InitLanes ==
    /\ variant = "none"
    /\ InitPlainStatics
    /\ InitPooledStatics
    /\ InitFusedStatics
    /\ InitOutParams
    /\ InitSteps
    /\ InitBuild
    /\ calls = 0
    /\ trace = <<>>
    /\ InitPool
    /\ InitDriverIdle
    /\ InitL2Idle
    /\ InitL2StageIdle
    /\ InitPair
    /\ InitWalkIdle
    /\ InitChainIdle
    /\ ifmap_vec = <<>>
    /\ weight_vecs = <<>>
    /\ products \in [Channels -> LaneProducts(128)]
    /\ stage = [n \in Channels |-> "products"]
    /\ accum1_out = [n \in Channels |-> <<>>]
    /\ accum2_out = [n \in Channels |-> <<>>]
    /\ accum3_out = [n \in Channels |-> <<>>]
    /\ sums = [n \in Channels |-> 0]
    /\ sum = 0
    /\ psum = [st \in 1..2 |-> <<>>]

NextLanes ==
    \E n \in Channels :
        \/ LaneAccum1(n)
        \/ LaneAccum2(n)
        \/ LaneAccum3(n)
        \/ LaneAccum4(n)

SpecLanes == InitLanes /\ [][NextLanes]_vars

\* What the chain of tdf12 returns for one product vector when its calls find their
\* psum zero.
LaneAlone(prods) ==
    tdf12_accum_4(tdf12_accum_3(tdf12_accum_2_out(tdf12_accum_2_psum(
        tdf12_accum_1_out(tdf12_accum_1_psum(prods, PsumLeft(32, FALSE))),
        PsumLeft(8, FALSE)))))

\* C35: the reduction of lane n reads and writes no state of another lane: in whatever
\* order the per-lane calls of an iteration run, every intermediate array and sums[n]
\* of a lane is determined by products[n] alone, so sums[] is the same for every order.
C35_LaneIndependence ==
    (DOMAIN stage = Channels) =>
        \A n \in Channels : (stage[n] = "sums") => (sums[n] = LaneAlone(products[n]))

(***************************************************************************)
(* A pooled layer built with a pooling window of one element, beside the   *)
(* plain generator.  POOLING_FACTOR is a constant of the layer header, so  *)
(* the generator is taken with the factor as a parameter of the build.     *)
(***************************************************************************)
\* Mutant: the commit flag is compared against the bound itself.
tdf2_flags_built_offbyone(i_p, j_p, P) ==
    [reset |-> (i_p = 0 /\ j_p = 0),
     store |-> (i_p = P) /\ (j_p = P)]

\* *resetMaximum and *storeOutput (lines 124-125) in a build with POOLING_FACTOR = P.
tdf2_flags_built(i_p, j_p, P) ==
    [reset |-> (i_p = 0 /\ j_p = 0),
     store |-> (i_p = P - 1) /\ (j_p = P - 1)]

\* The statics after the increments of one call (lines 131-154) in a build with
\* POOLING_FACTOR = P.
tdf2_advance_built(i, j, k, i_out, j_out, i_p, j_p, P) ==
    LET s == [i |-> i, j |-> j, k |-> k, i_out |-> i_out, j_out |-> j_out,
              i_p |-> i_p, j_p |-> j_p]
        jp1 == UINT8(j_p + 1)
    IN
    IF jp1 = P
    THEN LET ip1 == UINT8(i_p + 1) IN
         IF ip1 = P
         THEN LET k1 == UINT16(k + 1) IN
              IF k1 = ChannelGroups
              THEN LET jo1 == UINT16(j_out + 1) IN
                   IF jo1 = OUTPUT_WIDTH
                   THEN LET io1 == UINT16(i_out + 1) IN
                        IF io1 = OUTPUT_HEIGHT
                        THEN [s EXCEPT !.j_p = 0, !.i_p = 0, !.k = 0, !.j = 0, !.j_out = 0,
                                       !.i = 0, !.i_out = 0]
                        ELSE [s EXCEPT !.j_p = 0, !.i_p = 0, !.k = 0, !.j = 0, !.j_out = 0,
                                       !.i = UINT16(i + P), !.i_out = io1]
                   ELSE [s EXCEPT !.j_p = 0, !.i_p = 0, !.k = 0,
                                  !.j = UINT16(j + P), !.j_out = jo1]
              ELSE [s EXCEPT !.j_p = 0, !.i_p = 0, !.k = k1]
         ELSE [s EXCEPT !.j_p = 0, !.i_p = ip1]
    ELSE [s EXCEPT !.j_p = jp1]

\* One call of tdf2_get_next_ijk in a build with POOLING_FACTOR = P.
tdf2_get_next_ijk_built(P) ==
    /\ tdf2_i_p <= P
    /\ tdf2_j_p <= P
    /\ resetMaximum' = tdf2_flags_built(tdf2_i_p, tdf2_j_p, P).reset
    /\ storeOutput' = tdf2_flags_built(tdf2_i_p, tdf2_j_p, P).store
    /\ input_indices' = <<UINT16(tdf2_i + tdf2_i_p), UINT16(tdf2_j + tdf2_j_p), tdf2_k>>
    /\ output_indices' = <<tdf2_i_out, tdf2_j_out>>
    /\ LET n == tdf2_advance_built(tdf2_i, tdf2_j, tdf2_k, tdf2_i_out, tdf2_j_out,
                                   tdf2_i_p, tdf2_j_p, P) IN
         /\ tdf2_i' = n.i
         /\ tdf2_j' = n.j
         /\ tdf2_k' = n.k
         /\ tdf2_i_out' = n.i_out
         /\ tdf2_j_out' = n.j_out
         /\ tdf2_i_p' = n.i_p
         /\ tdf2_j_p' = n.j_p

\* What an iteration of the pooled layer beside a call of the plain generator leaves
\* untouched.
degenerateIdle ==
    <<variant, fusedVars, write, trace, accVars, seen, nwin, driverVars, l2Vars,
      laneVars, config, stepVars, l2StageVars, pairVars, walk, tree_chain>>

\* One iteration of TOP_LOOP in tdf2 built with POOLING_FACTOR = 1, and beside it one
\* call of the plain generator tdf9_get_next_ijk (the code of tdf6_get_next_ijk).
DegenerateIteration ==
    /\ variant = "pooled"
    /\ calls < MaxPasses * PlainIterations
    /\ tdf6_get_next_ijk
    /\ tdf2_get_next_ijk_built(1)
    /\ calls' = calls + 1
    /\ \E outs \in [Channels -> PoolVals] :
          /\ outputs' = outs
          /\ tdf2_poolOutputs(output_indices'[1], output_indices'[2], input_indices'[3],
                              resetMaximum', storeOutput', outs)
    /\ UNCHANGED degenerateIdle

NextDegenerate == DegenerateIteration

SpecDegenerate == InitPoolDriver /\ [][NextDegenerate]_vars

\* C36: in a pooled layer built with POOLING_FACTOR = 1 every call of the generator
\* returns resetMaximum and storeOutput true and an input coordinate equal to the
\* output coordinate, the coordinates are those the plain generator returns call for
\* call, and poolOutputs hands to writeOutputs, in the iteration itself, the incoming
\* values unchanged (the call a plain layer makes).
C36_DegeneratePooling ==
    [][/\ resetMaximum'
       /\ storeOutput'
       /\ input_indices' = <<output_indices'[1], output_indices'[2], input_indices'[3]>>
       /\ input_indices' = indices'
       /\ <<tdf2_i', tdf2_j', tdf2_k'>> = <<tdf6_i', tdf6_j', tdf6_k'>>
       /\ max_vals' = outputs'
       /\ written' = tdf12_writeOutputs(indices'[1], indices'[2], indices'[3], outputs')]_vars

\* A call of the second run of the layer, away from the origin, has written its values,
\* all zero, and left the window counters at zero.
C36_Witness ==
    /\ calls > PlainIterations
    /\ resetMaximum
    /\ storeOutput
    /\ input_indices[1] > 0
    /\ input_indices[2] > 0
    /\ input_indices[3] > 0
    /\ indices = input_indices
    /\ written # <<>>
    /\ written.vals = outputs
    /\ \A o \in Channels : outputs[o] = 0
    /\ <<tdf2_i_p, tdf2_j_p>> = <<0, 0>>

====
